---------------------------- MODULE Spec2Model ----------------------------
(***************************************************************************)
(* A model of Tools/cases_generator/analyzer.py: the semantic analysis of  *)
(* the bytecode DSL (Properties, stack effects, escaping calls, the passes *)
(* of analyze_forest and the opcode numbering of assign_opcodes).          *)
(*                                                                         *)
(* Python values are modelled as follows.                                  *)
(*   - a str is a TLA+ string; the string predicates the code uses         *)
(*     (startswith, endswith, upper, sorted) are tables over the finite    *)
(*     vocabulary of the model, because TLA+ strings are atomic;           *)
(*   - `X | None` is a set: {} is None and {v} is the value v;             *)
(*   - a dict is a sequence of [key, val] entries in insertion order;      *)
(*   - a lexer.Token is a record [kind, text, at]; `at` is its source      *)
(*     position, which makes two tokens of the same text different keys;   *)
(*   - an exception is a record [kind, msg, at].                           *)
(***************************************************************************)
EXTENDS Integers, Sequences, FiniteSets, TLC

VARIABLES
    properties,     \* from_list: its argument, a list of Properties
    combined,       \* from_list: its result, None before the call
    stack_op,       \* analyze_stack: its argument op (inputs, outputs, block)
    stack_result,   \* analyze_stack: what it returned or raised, None before
    instr,          \* find_escaping_api_calls: instr.block.tokens
    escaping,       \* find_escaping_api_calls: what it returned or raised
    forest,         \* analyze_forest: its argument, a list of AST nodes
    pc,             \* analyze_forest: the statement it is at
    at_node,        \* analyze_forest: position of the running `for node in forest`
    instructions,   \* analyze_forest: dict name -> Instruction
    uops,           \* analyze_forest: dict name -> Uop (a reference into uop_objs)
    uop_objs,       \* the Uop objects make_uop has created, in creation order
    families,       \* analyze_forest: dict name -> Family
    pseudos,        \* analyze_forest: dict name -> PseudoInstruction
    analysis,       \* analyze_forest: the opmap, have_arg, min_instrumented returned
    raised,         \* analyze_forest: the exception that ended it, None if none
    first_run       \* the outcome of an earlier call of analyze_forest, None if none

propsVars == <<properties, combined>>

stackVars == <<stack_op, stack_result>>

escapeVars == <<instr, escaping>>

forestVars ==
    <<forest, pc, at_node, instructions, uops, uop_objs, families, pseudos, analysis, raised,
      first_run>>

vars == <<properties, combined, stack_op, stack_result, instr, escaping,
          forest, pc, at_node, instructions, uops, uop_objs, families, pseudos,
          analysis, raised, first_run>>

---------------------------------------------------------------------------
(* Generic helpers                                                         *)

None == {}

Some(v) == {v}

TheValue(opt) == CHOOSE v \in opt : TRUE

Max(a, b) == IF a >= b THEN a ELSE b

Range(s) == {s[i] : i \in DOMAIN s}

\* All sequences over S of length at most n
SeqsUpTo(S, n) == UNION {[1..k -> S] : k \in 0..n}

\* --- Python dict: insertion-ordered sequence of entries ---
DictKeys(d) == {d[i].key : i \in DOMAIN d}

DictHas(d, k) == \E i \in DOMAIN d : d[i].key = k

DictGet(d, k) == d[CHOOSE i \in DOMAIN d : d[i].key = k].val

\* d[k] = v: an existing key keeps its place, a new key is appended
DictSet(d, k, v) ==
    IF DictHas(d, k)
    THEN [i \in DOMAIN d |-> IF d[i].key = k THEN [key |-> k, val |-> v] ELSE d[i]]
    ELSE Append(d, [key |-> k, val |-> v])

DictValues(d) == {d[i].val : i \in DOMAIN d}

\* list(d.values()) and list(d), in insertion order
DictValueSeq(d) == [i \in DOMAIN d |-> d[i].val]

DictKeySeq(d) == [i \in DOMAIN d |-> d[i].key]

\* The (key, value) pairs of a dict, as a set
DictItems(d) == {<<d[i].key, d[i].val>> : i \in DOMAIN d}

RECURSIVE DictUpdate(_, _)
\* a.update(b)
DictUpdate(a, b) ==
    IF b = <<>> THEN a
    ELSE DictUpdate(DictSet(a, Head(b).key, Head(b).val), Tail(b))

---------------------------------------------------------------------------
(* Properties and Properties.from_list                                     *)

\* The boolean fields of the dataclass that from_list combines with any()
AnyFlags ==
    {"error_with_pop", "error_without_pop", "deopts", "oparg", "jumps",
     "eval_breaker", "needs_this", "always_exits", "stores_sp",
     "uses_co_consts", "uses_co_names", "uses_locals", "has_free",
     "side_exit", "needs_prev"}

\* Every boolean field of the dataclass
BoolFlags == AnyFlags \cup {"pure", "oparg_and_1"}

\* Properties(...) with the flags of `on` true; the dataclass defaults are
\* tier=None, oparg_and_1=False, const_oparg=-1, needs_prev=False
Properties(escaping_calls, on, tier, const_oparg) ==
    [escaping_calls |-> escaping_calls,
     error_with_pop |-> "error_with_pop" \in on,
     error_without_pop |-> "error_without_pop" \in on,
     deopts |-> "deopts" \in on,
     oparg |-> "oparg" \in on,
     jumps |-> "jumps" \in on,
     eval_breaker |-> "eval_breaker" \in on,
     needs_this |-> "needs_this" \in on,
     always_exits |-> "always_exits" \in on,
     stores_sp |-> "stores_sp" \in on,
     uses_co_consts |-> "uses_co_consts" \in on,
     uses_co_names |-> "uses_co_names" \in on,
     uses_locals |-> "uses_locals" \in on,
     has_free |-> "has_free" \in on,
     side_exit |-> "side_exit" \in on,
     pure |-> "pure" \in on,
     tier |-> tier,
     oparg_and_1 |-> "oparg_and_1" \in on,
     const_oparg |-> const_oparg,
     needs_prev |-> "needs_prev" \in on]

SKIP_PROPERTIES == Properties(<<>>, {"pure"}, None, -1)

\* any(p.<flag> for p in properties)
any(ps, flag) == \E i \in DOMAIN ps : ps[i][flag]

\* A plausible slip: purity combined with any(), like every other flag
all_as_any(ps, flag) == \E i \in DOMAIN ps : ps[i][flag]

\* all(p.<flag> for p in properties)
all(ps, flag) == \A i \in DOMAIN ps : ps[i][flag]

RECURSIVE UpdateAll(_, _)
\* for p in properties: escaping_calls.update(p.escaping_calls)
UpdateAll(acc, ps) ==
    IF ps = <<>> THEN acc
    ELSE UpdateAll(DictUpdate(acc, Head(ps).escaping_calls), Tail(ps))

\* Properties.from_list: tier, oparg_and_1 and const_oparg are not passed to
\* the constructor and keep the dataclass defaults
from_list(ps) ==
    [escaping_calls |-> UpdateAll(<<>>, ps),
     error_with_pop |-> any(ps, "error_with_pop"),
     error_without_pop |-> any(ps, "error_without_pop"),
     deopts |-> any(ps, "deopts"),
     oparg |-> any(ps, "oparg"),
     jumps |-> any(ps, "jumps"),
     eval_breaker |-> any(ps, "eval_breaker"),
     needs_this |-> any(ps, "needs_this"),
     always_exits |-> any(ps, "always_exits"),
     stores_sp |-> any(ps, "stores_sp"),
     uses_co_consts |-> any(ps, "uses_co_consts"),
     uses_co_names |-> any(ps, "uses_co_names"),
     uses_locals |-> any(ps, "uses_locals"),
     has_free |-> any(ps, "has_free"),
     side_exit |-> any(ps, "side_exit"),
     pure |-> all(ps, "pure"),
     tier |-> None,
     oparg_and_1 |-> FALSE,
     const_oparg |-> -1,
     needs_prev |-> any(ps, "needs_prev")]

\* Properties.infallible
infallible(p) == ~p.error_with_pop /\ ~p.error_without_pop

\* Properties.escapes
escapes(p) == p.escaping_calls # <<>>

---------------------------------------------------------------------------
(* Tokens and errors                                                       *)

Token(kind, text, at) == [kind |-> kind, text |-> text, at |-> at]

\* A token before it is given its position
T(kind, text) == [kind |-> kind, text |-> text]

\* The tokens of a block, each at its own position in the definition `ctx`
TokensAt(ctx, body) ==
    [i \in DOMAIN body |-> Token(body[i].kind, body[i].text, <<ctx, i>>)]

\* analysis_error(message, tkn): a SyntaxError positioned at tkn
analysis_error(msg, at) ==
    [kind |-> "SyntaxError", msg |-> msg, at |-> at, detail |-> <<>>]

\* An exception that is not built by analysis_error
PythonError(kind, at) == [kind |-> kind, msg |-> "", at |-> at, detail |-> <<>>]

\* variable_used(node, name): an IDENTIFIER token of that text in the block
variable_used(block, name) ==
    \E i \in DOMAIN block : block[i].kind = "IDENTIFIER" /\ block[i].text = name

---------------------------------------------------------------------------
(* analyze_stack                                                           *)

StackItem(name) == [name |-> name, peek |-> FALSE, used |-> FALSE]

\* A plausible slip: only the first declared input is remembered
input_names_first_only(op) ==
    [n \in {op.inputs[i].name : i \in DOMAIN op.inputs \cap {1}} \ {"unused"} |-> 1]

\* input_names: {i.name : i.first_token for i in op.inputs if i.name != "unused"};
\* a later input of the same name replaces the token of an earlier one
input_names(op) ==
    [n \in {op.inputs[i].name : i \in DOMAIN op.inputs} \ {"unused"} |->
        CHOOSE i \in DOMAIN op.inputs :
            /\ op.inputs[i].name = n
            /\ \A j \in DOMAIN op.inputs : op.inputs[j].name = n => j <= i]

Reuse(names, name) ==
    analysis_error("Reuse of variable at different stack location", names[name])

RECURSIVE PeekLoop(_, _, _, _, _)
\* The zip_longest loop from position k on. A plausible slip: `modified`
\* is not latched, so a later pair of equal names is marked peek again
PeekLoop_no_latch(inputs, outputs, names, k, modified) ==
    IF k > Max(Len(inputs), Len(outputs))
    THEN [error |-> None, inputs |-> inputs, outputs |-> outputs]
    ELSE IF k > Len(outputs)
    THEN PeekLoop(inputs, outputs, names, k + 1, modified)
    ELSE IF k > Len(inputs)
    THEN IF outputs[k].name \in DOMAIN names
         THEN [error |-> Some(Reuse(names, outputs[k].name)),
               inputs |-> <<>>, outputs |-> <<>>]
         ELSE PeekLoop(inputs, outputs, names, k + 1, modified)
    ELSE IF inputs[k].name = outputs[k].name
    THEN PeekLoop([inputs EXCEPT ![k].peek = TRUE],
                  [outputs EXCEPT ![k].peek = TRUE], names, k + 1, modified)
    ELSE IF outputs[k].name \in DOMAIN names
    THEN [error |-> Some(Reuse(names, outputs[k].name)),
          inputs |-> <<>>, outputs |-> <<>>]
    ELSE PeekLoop(inputs, outputs, names, k + 1, FALSE)

\* for input, output in itertools.zip_longest(inputs, outputs): from pair k on
PeekLoop(inputs, outputs, names, k, modified) ==
    IF k > Max(Len(inputs), Len(outputs))
    THEN [error |-> None, inputs |-> inputs, outputs |-> outputs]
    ELSE IF k > Len(outputs)                        \* output is None: pass
    THEN PeekLoop(inputs, outputs, names, k + 1, modified)
    ELSE IF k > Len(inputs)                         \* input is None
    THEN IF outputs[k].name \in DOMAIN names
         THEN [error |-> Some(Reuse(names, outputs[k].name)),
               inputs |-> <<>>, outputs |-> <<>>]
         ELSE PeekLoop(inputs, outputs, names, k + 1, modified)
    ELSE IF inputs[k].name = outputs[k].name
    THEN IF ~modified
         THEN PeekLoop([inputs EXCEPT ![k].peek = TRUE],
                       [outputs EXCEPT ![k].peek = TRUE], names, k + 1, modified)
         ELSE PeekLoop(inputs, outputs, names, k + 1, modified)
    ELSE IF outputs[k].name \in DOMAIN names        \* modified = True
    THEN [error |-> Some(Reuse(names, outputs[k].name)),
          inputs |-> <<>>, outputs |-> <<>>]
    ELSE PeekLoop(inputs, outputs, names, k + 1, TRUE)

\* The `used` marking of an InstDef's items, after the loop
MarkUsed(op, inputs, outputs) ==
    LET output_names == {outputs[i].name : i \in DOMAIN outputs}
    IN  [inputs |->
            [i \in DOMAIN inputs |->
                [inputs[i] EXCEPT !.used =
                    \/ variable_used(op.block, inputs[i].name)
                    \/ variable_used(op.block, "DECREF_INPUTS")
                    \/ (~inputs[i].peek /\ inputs[i].name \in output_names)]],
         outputs |->
            [i \in DOMAIN outputs |->
                [outputs[i] EXCEPT !.used =
                    variable_used(op.block, outputs[i].name)]]]

IsStackEffect(i) == ~i.cache

\* analyze_stack(op): [error, inputs, outputs]. A StackItem's type, condition
\* and size are copied from the declaration and read by nothing here; they
\* are left out, and with them replace_op_arg_1, which only rewrites conditions
analyze_stack(op) ==
    LET stack_inputs == SelectSeq(op.inputs, IsStackEffect)
        inputs == [i \in DOMAIN stack_inputs |-> StackItem(stack_inputs[i].name)]
        outputs == [i \in DOMAIN op.outputs |-> StackItem(op.outputs[i].name)]
        looped == PeekLoop(inputs, outputs, input_names(op), 1, FALSE)
    IN  IF looped.error # None THEN looped
        ELSE IF op.kind \in {"inst", "op"}      \* isinstance(op, parser.InstDef)
        THEN [error |-> None] @@ MarkUsed(op, looped.inputs, looped.outputs)
        ELSE looped

---------------------------------------------------------------------------
(* find_escaping_api_calls and check_escaping_calls                        *)

\* The identifiers of the model's vocabulary for which each string test of
\* find_escaping_api_calls holds (tkn.text.upper() == tkn.text, and so on)
UpperCaseTexts == {"DEOPT_IF", "ERROR_IF", "EXIT_IF", "DECREF_INPUTS",
                   "GO_TO_INSTRUCTION", "INSTRUCTION_SIZE", "JUMPBY"}

OptimizerPrefixTexts == {"sym_new_const", "optimize_to_bool"}

EndsWithCheckTexts == {"PyLong_Check"}

PyIsTexts == {"Py_IsNone"}

EndsWithCheckExactTexts == {"PyLong_CheckExact"}

\* The members of NON_ESCAPING_FUNCTIONS the model's bodies use
NON_ESCAPING_FUNCTIONS == {"Py_DECREF", "PyStackRef_FromPyObjectNew", "assert"}

\* prev.text.endswith("_t") or prev.text == "*" or prev.text == "int"
CastTexts == {"uint16_t", "*", "int"}

\* tokens[i] in Python's indexing, where tokens[-1] is the last token
PyIndex(tokens, i) == IF i = 0 THEN tokens[Len(tokens)] ELSE tokens[i]

\* The loop body's filters: whether the token at idx (followed by another
\* token) is recorded as an escaping call
IsEscapingCall(tokens, idx) ==
    /\ tokens[idx + 1].kind = "LPAREN"
    /\ CASE tokens[idx].kind = "IDENTIFIER" ->
                /\ tokens[idx].text \notin UpperCaseTexts
                /\ tokens[idx].text \notin OptimizerPrefixTexts
                /\ tokens[idx].text \notin EndsWithCheckTexts
                /\ tokens[idx].text \notin PyIsTexts
                /\ tokens[idx].text \notin EndsWithCheckExactTexts
                /\ tokens[idx].text \notin NON_ESCAPING_FUNCTIONS
         [] tokens[idx].kind = "RPAREN" ->
                PyIndex(tokens, idx - 1).text \notin CastTexts
         [] OTHER -> tokens[idx].kind = "RBRACKET"

StmtDelimiters == {"SEMI", "LBRACE", "RBRACE", "CMACRO"}

RECURSIVE StmtStartBack(_, _)
\* The first loop of find_stmt_start: the index it stops at, 0 when the
\* assertion idx > 0 fails
StmtStartBack(tokens, idx) ==
    IF PyIndex(tokens, idx - 1).kind \in StmtDelimiters THEN idx
    ELSE IF idx - 1 <= 1 THEN 0
    ELSE StmtStartBack(tokens, idx - 1)

RECURSIVE SkipComments(_, _)
\* while tokens[idx].kind == "COMMENT": idx += 1; 0 for an IndexError
SkipComments(tokens, idx) ==
    IF idx > Len(tokens) THEN 0
    ELSE IF tokens[idx].kind = "COMMENT" THEN SkipComments(tokens, idx + 1)
    ELSE idx

\* find_stmt_start: [error, value], value the index of the statement's first token
find_stmt_start(tokens, idx) ==
    LET back == StmtStartBack(tokens, idx)
    IN  IF back = 0
        THEN [error |-> Some(PythonError("AssertionError", tokens[idx].at)), value |-> 0]
        ELSE IF SkipComments(tokens, back) = 0
        THEN [error |-> Some(PythonError("IndexError", tokens[idx].at)), value |-> 0]
        ELSE [error |-> None, value |-> SkipComments(tokens, back)]

\* find_stmt_end: [error, value], value the index of the token after the
\* statement's semicolon; running off the token list is an IndexError
find_stmt_end(tokens, idx) ==
    LET semis == {j \in (idx + 1)..Len(tokens) : tokens[j].kind = "SEMI"}
        semi == CHOOSE j \in semis : \A k \in semis : j <= k
    IN  IF semis = {} \/ semi + 1 > Len(tokens)
        THEN [error |-> Some(PythonError("IndexError", tokens[idx].at)), value |-> 0]
        ELSE [error |-> None, value |-> semi + 1]

RECURSIVE CollectCalls(_, _, _)
\* The for loop of find_escaping_api_calls from idx on: [error, value]
CollectCalls(tokens, idx, result) ==
    IF idx + 1 > Len(tokens)                        \* except IndexError: break
    THEN [error |-> None, value |-> result]
    ELSE IF tokens[idx].kind = "SWITCH"
    THEN [error |-> Some(analysis_error("switch statements are not supported",
                                        tokens[idx].at)),
          value |-> <<>>]
    ELSE IF ~IsEscapingCall(tokens, idx)
    THEN CollectCalls(tokens, idx + 1, result)
    ELSE LET start == find_stmt_start(tokens, idx)
             end == find_stmt_end(tokens, idx)
         IN  IF start.error # None THEN [error |-> start.error, value |-> <<>>]
             ELSE IF end.error # None THEN [error |-> end.error, value |-> <<>>]
             ELSE CollectCalls(tokens, idx + 1,
                      DictSet(result, tokens[start.value],
                              <<tokens[idx], tokens[end.value]>>))

\* calls = {escapes[t][0] for t in escapes}
CallsOf(result) == {result[i].val[1] : i \in DOMAIN result}

IsConditionHead(tkn) ==
    \/ tkn.kind = "IF"
    \/ tkn.kind = "IDENTIFIER" /\ tkn.text \in {"DEOPT_IF", "ERROR_IF"}

RECURSIVE ConditionLoop(_, _, _, _)
\* The for loop of check_escaping_calls from index i on, with its in_if
\* counter: the error it raises, or None
ConditionLoop(tokens, calls, i, in_if) ==
    IF i > Len(tokens) THEN None
    ELSE IF IsConditionHead(tokens[i])
    THEN IF i + 1 > Len(tokens)                     \* next(tkn_iter)
         THEN Some(PythonError("StopIteration", tokens[i].at))
         ELSE ConditionLoop(tokens, calls, i + 2, 1)
    ELSE IF tokens[i].kind = "LPAREN" /\ in_if > 0
    THEN ConditionLoop(tokens, calls, i + 1, in_if + 1)
    ELSE IF tokens[i].kind = "RPAREN"
    THEN ConditionLoop(tokens, calls, i + 1, IF in_if > 0 THEN in_if - 1 ELSE in_if)
    ELSE IF tokens[i] \in calls /\ in_if > 0
    THEN Some(analysis_error("Escaping call in condition", tokens[i].at))
    ELSE ConditionLoop(tokens, calls, i + 1, in_if)

\* check_escaping_calls(instr, escapes): the error it raises, or None
check_escaping_calls(tokens, found) ==
    ConditionLoop(tokens, CallsOf(found), 1, 0)

\* find_escaping_api_calls(instr): [error, value]
find_escaping_api_calls(tokens) ==
    LET collected == CollectCalls(tokens, 1, <<>>)
    IN  IF collected.error # None THEN collected
        ELSE IF check_escaping_calls(tokens, collected.value) # None
        THEN [error |-> check_escaping_calls(tokens, collected.value), value |-> <<>>]
        ELSE collected

---------------------------------------------------------------------------
(* The AST nodes handed to analyze_forest                                  *)

\* One record shape for the four node classes of the parser; `kind` is
\* "inst" or "op" (parser.InstDef), "macro", "family" or "pseudo". A node's
\* tokens are its header followed by its block. The blocks of the model hold
\* no `=`, no `&&` and no PyStackRef_FromPyObjectNew, for which
\* find_stores_outputs and analyze_deferred_refs return nothing and raise
\* nothing; after DEOPT_IF or ERROR_IF they hold at least two more tokens.
Node(kind, name) ==
    [kind |-> kind, name |-> name, annotations |-> <<>>, inputs |-> <<>>,
     outputs |-> <<>>, header |-> <<>>, block |-> <<T("LBRACE", "{"), T("RBRACE", "}")>>,
     uops |-> <<>>, size |-> "0", members |-> <<>>, targets |-> <<>>,
     as_sequence |-> FALSE, flags |-> <<>>]

IsInstDef(node) == node.kind \in {"inst", "op"}

\* node.tokens of the definition at position ctx of the forest
NodeTokens(node, ctx) == TokensAt(ctx, node.header \o node.block)

\* node.block.tokens
BlockTokens(node, ctx) ==
    [i \in DOMAIN node.block |->
        Token(node.block[i].kind, node.block[i].text, <<ctx, Len(node.header) + i>>)]

StackInput(name) == [name |-> name, cache |-> FALSE, size |-> 0, cond |-> ""]

CacheInput(name, size) == [name |-> name, cache |-> TRUE, size |-> size, cond |-> ""]

StackOutput(name) == [name |-> name, cond |-> ""]

---------------------------------------------------------------------------
(* compute_properties and what it calls                                    *)

\* oparg_used(node): an IDENTIFIER oparg among node.tokens
oparg_used(tokens) ==
    \E i \in DOMAIN tokens : tokens[i].kind = "IDENTIFIER" /\ tokens[i].text = "oparg"

\* re.fullmatch(r"tier\d", text), and int(text[-1])
TierOf(text) == IF text = "tier1" THEN Some(1) ELSE IF text = "tier2" THEN Some(2) ELSE None

\* tier_variable(node): decided by the first ANNOTATION token that is
\* "specializing" or "tierN"
tier_variable(tokens) ==
    LET hits == {i \in DOMAIN tokens :
                    /\ tokens[i].kind = "ANNOTATION"
                    /\ (tokens[i].text = "specializing" \/ TierOf(tokens[i].text) # None)}
        first == CHOOSE i \in hits : \A j \in hits : i <= j
    IN  IF hits = {} THEN None
        ELSE IF tokens[first].text = "specializing" THEN Some(1)
        ELSE TierOf(tokens[first].text)

has_error_with_pop(block) ==
    \/ variable_used(block, "ERROR_IF")
    \/ variable_used(block, "pop_1_error")
    \/ variable_used(block, "exception_unwind")
    \/ variable_used(block, "resume_with_error")

has_error_without_pop(block) ==
    \/ variable_used(block, "ERROR_NO_POP")
    \/ variable_used(block, "pop_1_error")
    \/ variable_used(block, "exception_unwind")
    \/ variable_used(block, "resume_with_error")

EXITS == {"DISPATCH", "GO_TO_INSTRUCTION", "Py_UNREACHABLE", "DISPATCH_INLINED",
          "DISPATCH_GOTO"}

RECURSIVE AlwaysExitsLoop(_, _, _)
\* The for loop of always_exits from token i on, at brace depth `depth`
AlwaysExitsLoop(tokens, i, depth) ==
    IF i > Len(tokens) THEN FALSE
    ELSE IF tokens[i].kind = "LBRACE" THEN AlwaysExitsLoop(tokens, i + 1, depth + 1)
    ELSE IF tokens[i].kind = "RBRACE" THEN AlwaysExitsLoop(tokens, i + 1, depth - 1)
    ELSE IF depth > 1 THEN AlwaysExitsLoop(tokens, i + 1, depth)
    ELSE IF tokens[i].kind \in {"GOTO", "RETURN"} THEN TRUE
    ELSE IF tokens[i].kind = "KEYWORD"
    THEN tokens[i].text \in EXITS \/ AlwaysExitsLoop(tokens, i + 1, depth)
    ELSE IF tokens[i].kind = "IDENTIFIER"
    THEN IF tokens[i].text \in EXITS THEN TRUE
         ELSE IF tokens[i].text \in {"DEOPT_IF", "ERROR_IF"}
         THEN \* next(tkn_iter) is the '(' and t = next(tkn_iter) the condition
              \/ (i + 2 <= Len(tokens) /\ tokens[i + 2].text \in {"true", "1"})
              \/ AlwaysExitsLoop(tokens, i + 3, depth)
         ELSE AlwaysExitsLoop(tokens, i + 1, depth)
    ELSE AlwaysExitsLoop(tokens, i + 1, depth)

always_exits(tokens) == AlwaysExitsLoop(tokens, 1, 0)

\* "CHECK_PERIODIC" in op.name, over the names of the model
ContainsCheckPeriodic(name) == name \in {"_CHECK_PERIODIC", "CHECK_PERIODIC"}

\* "pure" in op.annotations, and the like
HasAnnotation(node, anno) == \E i \in DOMAIN node.annotations : node.annotations[i] = anno

\* compute_properties(op) for the definition at ctx: [error, value]
compute_properties(op, ctx) ==
    LET block == BlockTokens(op, ctx)
        tokens == NodeTokens(op, ctx)
        escaping_calls == find_escaping_api_calls(block)
        has_free == \/ variable_used(block, "PyCell_New")
                    \/ variable_used(block, "PyCell_GetRef")
                    \/ variable_used(block, "PyCell_SetTakeRef")
                    \/ variable_used(block, "PyCell_SwapTakeRef")
        deopts_if == variable_used(block, "DEOPT_IF")
        exits_if == variable_used(block, "EXIT_IF")
        on == {f \in BoolFlags :
                CASE f = "error_with_pop" -> has_error_with_pop(block)
                  [] f = "error_without_pop" -> has_error_without_pop(block)
                  [] f = "deopts" -> deopts_if
                  [] f = "side_exit" -> exits_if
                  [] f = "oparg" -> oparg_used(tokens)
                  [] f = "jumps" -> variable_used(block, "JUMPBY")
                  [] f = "eval_breaker" -> ContainsCheckPeriodic(op.name)
                  [] f = "needs_this" -> variable_used(block, "this_instr")
                  [] f = "always_exits" -> always_exits(tokens)
                  [] f = "stores_sp" -> variable_used(block, "SYNC_SP")
                  [] f = "uses_co_consts" -> variable_used(block, "FRAME_CO_CONSTS")
                  [] f = "uses_co_names" -> variable_used(block, "FRAME_CO_NAMES")
                  [] f = "uses_locals" ->
                        (variable_used(block, "GETLOCAL") \/ variable_used(block, "SETLOCAL"))
                            /\ ~has_free
                  [] f = "has_free" -> has_free
                  [] f = "pure" -> HasAnnotation(op, "pure")
                  [] f = "needs_prev" -> variable_used(block, "prev_instr")
                  [] OTHER -> FALSE}
    IN  IF escaping_calls.error # None
        THEN [error |-> escaping_calls.error, value |-> SKIP_PROPERTIES]
        ELSE IF deopts_if /\ exits_if
        THEN [error |-> Some(analysis_error("Op cannot contain both EXIT_IF and DEOPT_IF",
                                            tokens[1].at)),
              value |-> SKIP_PROPERTIES]
        ELSE [error |-> None,
              value |-> Properties(escaping_calls.value, on, tier_variable(tokens), -1)]

---------------------------------------------------------------------------
(* find_stores_outputs and analyze_deferred_refs                           *)

StmtBounds == {"SEMI", "LBRACE", "RBRACE"}

\* find_assignment_target(node, idx) for the token at position p (= idx + 1)
find_assignment_target(block, p) ==
    LET bounds == {q \in 1..(p - 1) : block[q].kind \in StmtBounds}
        last == CHOOSE q \in bounds : \A r \in bounds : r <= q
    IN  IF bounds = {} THEN <<>> ELSE SubSeq(block, last + 1, p - 1)

RECURSIVE DropComments(_)
\* while lhs and lhs[0].kind == "COMMENT": lhs = lhs[1:]
DropComments(lhs) ==
    IF lhs # <<>> /\ Head(lhs).kind = "COMMENT" THEN DropComments(Tail(lhs)) ELSE lhs

\* The names of a list of effects
EffectNames(effects) == {effects[i].name : i \in DOMAIN effects}

\* What one `=` token at position p adds to res, by its assignment target
StoreOf(node, lhs, res) ==
    IF lhs = <<>>                                                 \* assert lhs
    THEN [error |-> Some(PythonError("AssertionError", <<0, 0>>)), value |-> res]
    ELSE IF Len(DropComments(lhs)) # 1 \/ DropComments(lhs)[1].kind # "IDENTIFIER"
    THEN [error |-> None, value |-> res]
    ELSE IF DropComments(lhs)[1].text \in EffectNames(node.inputs)
    THEN [error |-> Some(analysis_error("Cannot assign to input variable",
                                        DropComments(lhs)[1].at)),
          value |-> res]
    ELSE IF DropComments(lhs)[1].text \in EffectNames(node.outputs)
    THEN [error |-> None, value |-> Append(res, DropComments(lhs)[1])]
    ELSE [error |-> None, value |-> res]

RECURSIVE StoresLoop(_, _, _, _)
\* The for loop of find_stores_outputs from position p on: [error, value]
StoresLoop(node, block, p, res) ==
    IF p > Len(block) THEN [error |-> None, value |-> res]
    ELSE IF block[p].kind = "AND"
    THEN IF p + 1 > Len(block)                       \* node.block.tokens[idx+1]
         THEN [error |-> Some(PythonError("IndexError", block[p].at)), value |-> res]
         ELSE IF block[p + 1].text \in EffectNames(node.outputs)
         THEN StoresLoop(node, block, p + 1, Append(res, block[p + 1]))
         ELSE StoresLoop(node, block, p + 1, res)
    ELSE IF block[p].kind # "EQUALS" THEN StoresLoop(node, block, p + 1, res)
    ELSE LET stored == StoreOf(node, find_assignment_target(block, p), res)
         IN  IF stored.error # None THEN stored
             ELSE StoresLoop(node, block, p + 1, stored.value)

\* find_stores_outputs(node): [error, value]
find_stores_outputs(node, ctx) == StoresLoop(node, BlockTokens(node, ctx), 1, <<>>)

\* in_frame_push(idx) for the token at position p: the slice tokens[:idx-1]
\* ends one token before the end of the block when idx is 0
in_frame_push(block, p) ==
    LET upto == IF p = 1 THEN Len(block) - 1 ELSE p - 2
        stops == {q \in 1..upto :
                    \/ block[q].kind \in StmtBounds
                    \/ block[q].kind = "IDENTIFIER"
                       /\ block[q].text = "_PyFrame_PushUnchecked"}
        last == CHOOSE q \in stops : \A r \in stops : r <= q
    IN  stops # {} /\ block[last].kind \notin StmtBounds

\* What the call at position p, which follows a `=`, is recorded as
DeferredRefOf(node, tkn, lhs, refs) ==
    IF lhs = <<>>
    THEN [error |-> Some(analysis_error(
                "PyStackRef_FromPyObjectNew() must be assigned to an output", tkn.at)),
          value |-> refs]
    ELSE IF \/ lhs[1].kind = "TIMES"
            \/ \E i \in 2..Len(lhs) : lhs[i].kind \in {"ARROW", "LBRACKET"}
    THEN [error |-> None, value |-> DictSet(refs, tkn, None)]
    ELSE IF Len(lhs) # 1 \/ lhs[1].kind # "IDENTIFIER"
    THEN [error |-> Some(analysis_error(
                "PyStackRef_FromPyObjectNew() must be assigned to an output", tkn.at)),
          value |-> refs]
    ELSE IF lhs[1].text \notin EffectNames(node.inputs) \cup EffectNames(node.outputs)
    THEN [error |-> Some(analysis_error(
                "PyStackRef_FromPyObjectNew() must be assigned to an input or output",
                tkn.at)),
          value |-> refs]
    ELSE [error |-> None, value |-> DictSet(refs, tkn, Some(lhs[1].text))]

RECURSIVE DeferredLoop(_, _, _, _)
\* The for loop of analyze_deferred_refs from position p on: [error, value]
DeferredLoop(node, block, p, refs) ==
    IF p > Len(block) THEN [error |-> None, value |-> refs]
    ELSE IF block[p].kind # "IDENTIFIER" \/ block[p].text # "PyStackRef_FromPyObjectNew"
    THEN DeferredLoop(node, block, p + 1, refs)
    ELSE IF p = 1 \/ block[Max(p - 1, 1)].kind # "EQUALS"
    THEN IF in_frame_push(block, p)
         THEN DeferredLoop(node, block, p + 1, DictSet(refs, block[p], None))
         ELSE [error |-> Some(analysis_error(
                        "Expected '=' before PyStackRef_FromPyObjectNew", block[p].at)),
               value |-> refs]
    ELSE LET ref == DeferredRefOf(node, block[p], find_assignment_target(block, p - 1),
                                  refs)
         IN  IF ref.error # None THEN ref
             ELSE DeferredLoop(node, block, p + 1, ref.value)

\* analyze_deferred_refs(node): [error, value]
analyze_deferred_refs(node, ctx) == DeferredLoop(node, BlockTokens(node, ctx), 1, <<>>)

---------------------------------------------------------------------------
(* Uops: analyze_caches, make_uop, add_op                                  *)

CacheEntry(name, size) == [name |-> name, size |-> size]

IsCacheEffect(i) == i.cache

\* analyze_caches(inputs): [error, value]
analyze_caches(inputs, at) ==
    LET caches == SelectSeq(inputs, IsCacheEffect)
    IN  IF \E i \in DOMAIN caches : caches[i].name = "unused"
        THEN [error |-> Some(analysis_error(
                            "Unused cache entry in op. Move to enclosing macro.", at)),
              value |-> <<>>]
        ELSE [error |-> None,
              value |-> [i \in DOMAIN caches |-> CacheEntry(caches[i].name, caches[i].size)]]

\* OPARG_AND_1.match(cond), over the conditions of the model
MatchesOpargAnd1(cond) == cond \in {"oparg & 1", "(oparg & 1)"}

\* effect_depends_on_oparg_1(op)
effect_depends_on_oparg_1(op) ==
    \/ \E i \in DOMAIN op.inputs :
            ~op.inputs[i].cache /\ MatchesOpargAnd1(op.inputs[i].cond)
    \/ \E i \in DOMAIN op.outputs : MatchesOpargAnd1(op.outputs[i].cond)

\* int(anno[10:-1]) of an annotation that starts with "replicate"
ReplicateCount(anno) ==
    CASE anno = "replicate(1)" -> 1
      [] anno = "replicate(2)" -> 2
      [] anno = "replicate(3)" -> 3
      [] OTHER -> 0

StartsWithReplicate(anno) == anno \in {"replicate(1)", "replicate(2)", "replicate(3)"}

\* The replicate annotations of op, in order: the for loop takes the first
ReplicateAnnotations(op) == SelectSeq(op.annotations, StartsWithReplicate)

\* The Uop dataclass; `context` is the position in the forest of the
\* definition it was built from, `replicates` the reference to another Uop
Uop(name, context, op, stack, caches, refs, stores, body, props) ==
    [name |-> name, context |-> context, annotations |-> op.annotations,
     stack |-> stack, caches |-> caches, deferred_refs |-> refs,
     output_stores |-> stores, body |-> body, properties |-> props,
     implicitly_created |-> FALSE, replicated |-> 0, replicates |-> None,
     instruction_size |-> None]

RECURSIVE RegisterAll(_, _, _)
\* uops[rep.name] = rep for each variant, each a new object of the heap:
\* [uops, objs]
RegisterAll(uopmap, objs, reps) ==
    IF reps = <<>> THEN [uops |-> uopmap, objs |-> objs]
    ELSE RegisterAll(DictSet(uopmap, Head(reps).name, Len(objs) + 1),
                     Append(objs, Head(reps)), Tail(reps))

\* The body of make_uop once the stack, the caches, the deferred references,
\* the output stores and the properties of the definition are computed:
\* [error, uop (the index of the result), uops, objs]
BuildUop(name, op, ctx, stack, caches, refs, stores, props, uopmap, objs) ==
    LET body == BlockTokens(op, ctx)
        failed(e) == [error |-> e, uop |-> 0, uops |-> uopmap, objs |-> objs]
        split == effect_depends_on_oparg_1(op) /\ HasAnnotation(op, "split")
        replicate == ReplicateAnnotations(op)
        replicated == IF replicate = <<>> THEN 0 ELSE ReplicateCount(replicate[1])
        id == Len(objs) + 1
        effect == [inputs |-> stack.inputs, outputs |-> stack.outputs]
        result == [Uop(name, ctx, op, effect, caches.value, refs.value, stores.value,
                       body, [props.value EXCEPT !.oparg_and_1 = split])
                   EXCEPT !.replicated = replicated]
        bit_properties ==
            [props.value EXCEPT !.oparg =
                @ /\ \E i \in DOMAIN body : body[i].text = "oparg"]
        bit_rep(bit) ==
            [Uop(name \o "_" \o bit, ctx, op, effect, caches.value, refs.value,
                 stores.value, body, bit_properties)
             EXCEPT !.replicates = Some(id)]
        oparg_rep(oparg) ==
            [Uop(name \o "_" \o ToString(oparg), ctx, op, effect, caches.value,
                 refs.value, stores.value, body,
                 [props.value EXCEPT !.oparg = FALSE, !.const_oparg = oparg])
             EXCEPT !.replicates = Some(id)]
        bit_reps == IF split THEN <<bit_rep("0"), bit_rep("1")>> ELSE <<>>
        oparg_reps == [i \in 1..replicated |-> oparg_rep(i - 1)]
        registered == RegisterAll(uopmap, Append(objs, result), bit_reps \o oparg_reps)
    IN  IF stack.error # None THEN failed(stack.error)
        ELSE IF caches.error # None THEN failed(caches.error)
        ELSE IF refs.error # None THEN failed(refs.error)
        ELSE IF stores.error # None THEN failed(stores.error)
        ELSE IF props.error # None THEN failed(props.error)
        ELSE [error |-> None, uop |-> id, uops |-> registered.uops,
              objs |-> registered.objs]

\* make_uop(name, op, inputs, uops) for the definition at ctx. Uop objects
\* live in the heap `objs` and are referred to by their index in it
make_uop(name, op, ctx, inputs, uopmap, objs) ==
    BuildUop(name, op, ctx, analyze_stack(op), analyze_caches(inputs, <<ctx, 1>>),
             analyze_deferred_refs(op, ctx), find_stores_outputs(op, ctx),
             compute_properties(op, ctx), uopmap, objs)

\* override_error(name, context, prev_context, token)
override_error(name, context, prev_context, at) ==
    [kind |-> "SyntaxError", msg |-> "Duplicate definition", at |-> at,
     detail |-> <<name, context, prev_context>>]

\* A plausible slip: the override annotation is not looked at
MustNotRedefine_ignoring_override(op, uopmap) == DictHas(uopmap, op.name)

\* The test of add_op: the name is taken and the definition has no override
MustNotRedefine(op, uopmap) ==
    DictHas(uopmap, op.name) /\ ~HasAnnotation(op, "override")

\* uops[op.name] = make_uop(...), or the error make_uop raised
RegisterOp(name, made, uopmap, objs) ==
    IF made.error # None
    THEN [error |-> made.error, uops |-> uopmap, objs |-> objs]
    ELSE [error |-> None, uops |-> DictSet(made.uops, name, made.uop),
          objs |-> made.objs]

\* add_op(op, uops) for the definition at ctx: [error, uops, objs]
add_op(op, ctx, uopmap, objs) ==
    IF MustNotRedefine(op, uopmap)
    THEN [error |-> Some(override_error(op.name, ctx,
                             objs[DictGet(uopmap, op.name)].context, <<ctx, 1>>)),
          uops |-> uopmap, objs |-> objs]
    ELSE RegisterOp(op.name, make_uop(op.name, op, ctx, op.inputs, uopmap, objs),
                    uopmap, objs)

---------------------------------------------------------------------------
(* Instructions: desugar_inst, add_macro                                   *)

UopPart(id) == [kind |-> "Uop", uop |-> id, size |-> 0]

Skip(size) == [kind |-> "Skip", uop |-> 0, size |-> size]

Flush == [kind |-> "Flush", uop |-> 0, size |-> 0]

\* Instruction(where, name, parts, None); `family` refers to a Family by
\* the position in the forest of the node that built it. _properties is
\* only a cache of from_list over the parts and is computed where it is read
Instruction(where, name, parts) ==
    [where |-> where, name |-> name, parts |-> parts, is_target |-> FALSE,
     family |-> None, opcode |-> -1]

\* add_instruction(where, name, parts, instructions)
add_instruction(where, name, parts, insts) ==
    DictSet(insts, name, Instruction(where, name, parts))

RECURSIVE HoistUnused_uop_last(_, _, _, _)
\* The loop of desugar_inst placing no placeholder: the uop is appended
\* after the Skip parts
HoistUnused_uop_last(inputs, parts, op_inputs, uop_index) ==
    IF inputs = <<>>
    THEN [parts |-> parts, op_inputs |-> op_inputs, uop_index |-> uop_index]
    ELSE IF Head(inputs).cache /\ Head(inputs).name = "unused"
    THEN HoistUnused_uop_last(Tail(inputs), Append(parts, Skip(Head(inputs).size)),
                              op_inputs, uop_index)
    ELSE HoistUnused_uop_last(Tail(inputs), parts, Append(op_inputs, Head(inputs)),
                              uop_index)

RECURSIVE HoistUnused(_, _, _, _)
\* The for loop of desugar_inst over inst.inputs: [parts, op_inputs, uop_index],
\* uop_index 0-based as in the code and -1 while no placeholder is placed
HoistUnused(inputs, parts, op_inputs, uop_index) ==
    IF inputs = <<>>
    THEN [parts |-> parts, op_inputs |-> op_inputs, uop_index |-> uop_index]
    ELSE IF Head(inputs).cache /\ Head(inputs).name = "unused"
    THEN HoistUnused(Tail(inputs), Append(parts, Skip(Head(inputs).size)),
                     op_inputs, uop_index)
    ELSE IF uop_index < 0
    THEN HoistUnused(Tail(inputs), Append(parts, Skip(0)),
                     Append(op_inputs, Head(inputs)), Len(parts))
    ELSE HoistUnused(Tail(inputs), parts, Append(op_inputs, Head(inputs)), uop_index)

\* desugar_inst from the return of make_uop on
PlaceUop(inst, ctx, hoisted, made, insts, uopmap, objs) ==
    LET parts == IF hoisted.uop_index < 0
                 THEN Append(hoisted.parts, UopPart(made.uop))
                 ELSE [hoisted.parts EXCEPT ![hoisted.uop_index + 1] = UopPart(made.uop)]
    IN  IF made.error # None
        THEN [error |-> made.error, instructions |-> insts,
              uops |-> uopmap, objs |-> objs]
        ELSE [error |-> None,
              instructions |-> add_instruction(ctx, inst.name, parts, insts),
              uops |-> DictSet(made.uops, inst.name, made.uop),
              objs |-> [made.objs EXCEPT ![made.uop].implicitly_created = TRUE]]

\* The call of make_uop in desugar_inst
DesugaredUop(inst, ctx, hoisted, insts, uopmap, objs) ==
    PlaceUop(inst, ctx, hoisted,
             make_uop("_" \o inst.name, inst, ctx, hoisted.op_inputs, uopmap, objs),
             insts, uopmap, objs)

\* desugar_inst(inst, instructions, uops) for the definition at ctx:
\* [error, instructions, uops, objs]
desugar_inst(inst, ctx, insts, uopmap, objs) ==
    DesugaredUop(inst, ctx, HoistUnused(inst.inputs, <<>>, <<>>, -1), insts, uopmap, objs)

OpName(name) == [kind |-> "OpName", name |-> name, size |-> 0]

CacheEffect(name, size) == [kind |-> "CacheEffect", name |-> name, size |-> size]

RECURSIVE MacroParts(_, _, _, _)
\* The for loop of add_macro over macro.uops: [error, parts]
MacroParts(todo, parts, uopmap, at) ==
    IF todo = <<>> THEN [error |-> None, parts |-> parts]
    ELSE IF Head(todo).kind = "OpName"
    THEN IF Head(todo).name = "flush"
         THEN MacroParts(Tail(todo), Append(parts, Flush), uopmap, at)
         ELSE IF ~DictHas(uopmap, Head(todo).name)
         THEN [error |-> Some(analysis_error("No Uop named", at)), parts |-> <<>>]
         ELSE MacroParts(Tail(todo),
                         Append(parts, UopPart(DictGet(uopmap, Head(todo).name))), uopmap, at)
    ELSE MacroParts(Tail(todo), Append(parts, Skip(Head(todo).size)), uopmap, at)

\* add_macro resolving a macro as soon as its node is met: only the uops
\* defined by nodes before the macro are known
add_macro_looking_back(macro, ctx, insts, uopmap) ==
    LET earlier(entry) == uop_objs[entry.val].context < ctx
        built == MacroParts(macro.uops, <<>>, SelectSeq(uopmap, earlier), <<ctx, 1>>)
    IN  IF built.error # None
        THEN [error |-> built.error, instructions |-> insts]
        ELSE IF built.parts = <<>>
        THEN [error |-> Some(PythonError("AssertionError", <<ctx, 1>>)),
              instructions |-> insts]
        ELSE [error |-> None,
              instructions |-> add_instruction(ctx, macro.name, built.parts, insts)]

\* add_macro(macro, instructions, uops) for the macro at ctx: [error, instructions]
add_macro(macro, ctx, insts, uopmap) ==
    LET built == MacroParts(macro.uops, <<>>, uopmap, <<ctx, 1>>)
    IN  IF built.error # None
        THEN [error |-> built.error, instructions |-> insts]
        ELSE IF built.parts = <<>>                          \* assert parts
        THEN [error |-> Some(PythonError("AssertionError", <<ctx, 1>>)),
              instructions |-> insts]
        ELSE [error |-> None,
              instructions |-> add_instruction(ctx, macro.name, built.parts, insts)]

---------------------------------------------------------------------------
(* Families and pseudo-instructions: add_family, add_pseudo                *)

\* Family(name, size, members); `id` is the object's identity (the position
\* of its node in the forest). The members are Instruction objects: from
\* pass 3 on each name of the instruction registry stands for one object, and
\* a member is referred to by its name
Family(id, name, size, members) ==
    [id |-> id, name |-> name, size |-> size, members |-> members]

\* for member in family.members: member.family = family
SetFamily(insts, members, id) ==
    [i \in DOMAIN insts |->
        IF insts[i].key \in Range(members)
        THEN [insts[i] EXCEPT !.val.family = Some(id)]
        ELSE insts[i]]

\* instructions[name].is_target = True
SetTarget(insts, name) ==
    [i \in DOMAIN insts |->
        IF insts[i].key = name
        THEN [insts[i] EXCEPT !.val.is_target = TRUE]
        ELSE insts[i]]

\* The names of the list that are not keys of the dict
Missing(names, d) == {i \in DOMAIN names : ~DictHas(d, names[i])}

\* add_family(pfamily, instructions, families) for the node at ctx:
\* [error, instructions, families]
add_family(pfamily, ctx, insts, fams) ==
    LET family == Family(ctx, pfamily.name, pfamily.size, pfamily.members)
    IN  IF Missing(pfamily.members, insts) # {}  \* insts[member_name]
        THEN [error |-> Some(PythonError("KeyError", <<ctx, 1>>)),
              instructions |-> insts, families |-> fams]
        ELSE IF ~DictHas(insts, family.name)      \* insts[family.name]
        THEN [error |-> Some(PythonError("KeyError", <<ctx, 1>>)),
              instructions |-> insts, families |-> fams]
        ELSE [error |-> None,
              instructions |->
                SetTarget(SetFamily(insts, family.members, family.id), family.name),
              families |-> DictSet(fams, family.name, family)]

PseudoInstruction(name, stack, targets, as_sequence, flags) ==
    [name |-> name, stack |-> stack, targets |-> targets,
     as_sequence |-> as_sequence, flags |-> flags, opcode |-> -1]

\* add_pseudo(pseudo, instructions, pseudos): [error, pseudos]
add_pseudo(pseudo, ctx, insts, ps) ==
    LET stack == analyze_stack(pseudo)
    IN  IF stack.error # None THEN [error |-> stack.error, pseudos |-> ps]
        ELSE IF Missing(pseudo.targets, insts) # {}  \* insts[target]
        THEN [error |-> Some(PythonError("KeyError", <<ctx, 1>>)), pseudos |-> ps]
        ELSE [error |-> None,
              pseudos |-> DictSet(ps, pseudo.name,
                            PseudoInstruction(pseudo.name,
                                [inputs |-> stack.inputs, outputs |-> stack.outputs],
                                pseudo.targets, pseudo.as_sequence, pseudo.flags))]

---------------------------------------------------------------------------
(* analyze_forest after the three passes: goto targets, instruction sizes  *)

RECURSIVE ScanBody(_, _, _)
\* The loop `for tkn in tkn_iter` over one uop body, from token i on; the
\* two next(tkn_iter) consume tokens of the same iterator:
\* [error, instructions]
ScanBody(body, i, insts) ==
    IF i > Len(body) THEN [error |-> None, instructions |-> insts]
    ELSE IF body[i].kind = "IDENTIFIER" /\ body[i].text = "GO_TO_INSTRUCTION"
    THEN IF i + 1 > Len(body)
         THEN [error |-> Some(PythonError("StopIteration", body[i].at)),
               instructions |-> insts]
         ELSE IF body[i + 1].kind # "LPAREN" THEN ScanBody(body, i + 2, insts)
         ELSE IF i + 2 > Len(body)
         THEN [error |-> Some(PythonError("StopIteration", body[i].at)),
               instructions |-> insts]
         ELSE IF body[i + 2].kind # "IDENTIFIER" THEN ScanBody(body, i + 3, insts)
         ELSE IF DictHas(insts, body[i + 2].text)
         THEN ScanBody(body, i + 3, SetTarget(insts, body[i + 2].text))
         ELSE ScanBody(body, i + 3, insts)
    ELSE ScanBody(body, i + 1, insts)

RECURSIVE ScanUops(_, _, _)
\* for uop in uops.values(): scan uop.body
ScanUops(ids, objs, insts) ==
    IF ids = <<>> THEN [error |-> None, instructions |-> insts]
    ELSE LET scanned == ScanBody(objs[Head(ids)].body, 1, insts)
         IN  IF scanned.error # None THEN scanned
             ELSE ScanUops(Tail(ids), objs, scanned.instructions)

RECURSIVE Sum(_)
Sum(ns) == IF ns = <<>> THEN 0 ELSE Head(ns) + Sum(Tail(ns))

\* Uop.size: sum(c.size for c in self.caches)
UopSize(uop) == Sum([i \in DOMAIN uop.caches |-> uop.caches[i].size])

\* part.size of a Uop, Skip or Flush
PartSize(part, objs) ==
    IF part.kind = "Uop" THEN UopSize(objs[part.uop]) ELSE part.size

\* Instruction.size
size(inst, objs) ==
    1 + Sum([i \in DOMAIN inst.parts |-> PartSize(inst.parts[i], objs)])

\* uop in inst.parts
UopIn(id, inst) ==
    \E i \in DOMAIN inst.parts : inst.parts[i].kind = "Uop" /\ inst.parts[i].uop = id

\* get_instruction_size_for_uop taking the size of the first instruction
\* that holds the uop, the others not compared
get_instruction_size_of_first(insts, objs, id) ==
    LET body == objs[id].body
        marks == {i \in DOMAIN body : body[i].text = "INSTRUCTION_SIZE"}
        tkn == body[CHOOSE i \in marks : \A j \in marks : i <= j]
        holder(inst) == UopIn(id, inst)
        holders == SelectSeq(DictValueSeq(insts), holder)
    IN  IF marks = {} THEN [error |-> None, value |-> None]
        ELSE IF holders = <<>>
        THEN [error |-> Some(analysis_error("No instruction containing the uop was found",
                                            tkn.at)),
              value |-> None]
        ELSE [error |-> None, value |-> Some(size(holders[1], objs))]

\* get_instruction_size_for_uop(instructions, uop): [error, value]
get_instruction_size_for_uop(insts, objs, id) ==
    LET body == objs[id].body
        marks == {i \in DOMAIN body : body[i].text = "INSTRUCTION_SIZE"}
        tkn == body[CHOOSE i \in marks : \A j \in marks : i <= j]
        holder(inst) == UopIn(id, inst)
        holders == SelectSeq(DictValueSeq(insts), holder)
    IN  IF marks = {} THEN [error |-> None, value |-> None]
        ELSE IF \E i \in DOMAIN holders : size(holders[i], objs) # size(holders[1], objs)
        THEN [error |-> Some(analysis_error(
                  "All instructions containing a uop with the INSTRUCTION_SIZE macro must have the same size",
                  tkn.at)),
              value |-> None]
        ELSE IF holders = <<>>
        THEN [error |-> Some(analysis_error("No instruction containing the uop was found",
                                            tkn.at)),
              value |-> None]
        ELSE [error |-> None, value |-> Some(size(holders[1], objs))]

RECURSIVE SizeUops(_, _, _)
\* for uop in uops.values(): uop.instruction_size = ...: [error, objs]
SizeUops(ids, insts, objs) ==
    IF ids = <<>> THEN [error |-> None, objs |-> objs]
    ELSE LET got == get_instruction_size_for_uop(insts, objs, Head(ids))
         IN  IF got.error # None THEN [error |-> got.error, objs |-> objs]
             ELSE SizeUops(Tail(ids), insts,
                           [objs EXCEPT ![Head(ids)].instruction_size = got.value])

---------------------------------------------------------------------------
(* assign_opcodes                                                          *)

\* The names of the model in the order of Python's sorted()
NamesInOrder ==
    <<"A", "B", "BINARY_OP", "BINARY_OP_INPLACE_ADD_UNICODE", "C", "CACHE",
      "ENTER_EXECUTOR", "F", "INSTRUMENTED_LINE", "INSTRUMENTED_X", "INSTRUMENTED_Y",
      "M", "P", "Q",
      "RESERVED", "RESUME", "U", "V", "Z">>

\* A set walked in an order that is not the same in every call, as hash
\* order is not: lexical in a first call, reversed in a second
sorted_in_hash_order(names) ==
    LET listed(n) == n \in names
        inorder == SelectSeq(NamesInOrder, listed)
    IN  IF first_run = None THEN inorder
        ELSE [i \in DOMAIN inorder |-> inorder[Len(inorder) + 1 - i]]

\* sorted(names)
sorted(names) ==
    LET listed(n) == n \in names
    IN  SelectSeq(NamesInOrder, listed)

\* name.startswith("INSTRUMENTED")
StartsWithInstrumented(name) ==
    name \in {"INSTRUMENTED_LINE", "INSTRUMENTED_X", "INSTRUMENTED_Y"}

min_internal == 150

\* instmap after the six pre-defined names
PredefinedOpcodes ==
    <<[key |-> "CACHE", val |-> 0], [key |-> "RESERVED", val |-> 17],
      [key |-> "RESUME", val |-> 149],
      [key |-> "BINARY_OP_INPLACE_ADD_UNICODE", val |-> 3],
      [key |-> "INSTRUMENTED_LINE", val |-> 254],
      [key |-> "ENTER_EXECUTOR", val |-> 255]>>

\* add_instruction taking next_opcode as it is, whatever instmap holds
NextFree_not_looking(instmap, next_opcode) == next_opcode

RECURSIVE NextFree(_, _)
\* while next_opcode in instmap.values(): next_opcode += 1
NextFree(instmap, next_opcode) ==
    IF next_opcode \in DictValues(instmap) THEN NextFree(instmap, next_opcode + 1)
    ELSE next_opcode

RECURSIVE NumberAll(_, _, _)
\* for name in names: add_instruction(name), the nested function of
\* assign_opcodes: [instmap, next_opcode]
NumberAll(names, instmap, next_opcode) ==
    IF names = <<>> THEN [instmap |-> instmap, next_opcode |-> next_opcode]
    ELSE IF DictHas(instmap, Head(names))              \* Pre-defined name
    THEN NumberAll(Tail(names), instmap, next_opcode)
    ELSE LET free == NextFree(instmap, next_opcode)
         IN  NumberAll(Tail(names), DictSet(instmap, Head(names), free), free + 1)

\* Instruction.properties
InstructionProperties(inst, objs) ==
    from_list([i \in DOMAIN inst.parts |->
                  IF inst.parts[i].kind = "Uop"
                  THEN objs[inst.parts[i].uop].properties
                  ELSE SKIP_PROPERTIES])

RECURSIVE NumberPseudos(_, _, _, _)
\* for op, name in enumerate(sorted(pseudos), 256): [instmap, pseudos]
NumberPseudos(names, op, instmap, ps) ==
    IF names = <<>> THEN [instmap |-> instmap, pseudos |-> ps]
    ELSE NumberPseudos(Tail(names), op + 1, DictSet(instmap, Head(names), op),
            DictSet(ps, Head(names), [DictGet(ps, Head(names)) EXCEPT !.opcode = op]))

\* assign_opcodes(instructions, families, pseudos):
\* [error, instmap, no_arg, min_instrumented, instructions, pseudos]
assign_opcodes(insts, fams, ps, objs) ==
    LET names == DictKeySeq(insts)
        instrumented == SelectSeq(names, StartsWithInstrumented)
        specialized == UNION {Range(f.members) : f \in DictValues(fams)}
        plain(n) == n \notin specialized /\ n \notin Range(instrumented)
        reads_oparg(n) == InstructionProperties(DictGet(insts, n), objs).oparg
        has_arg == {n \in Range(names) : plain(n) /\ reads_oparg(n)}
        no_arg == {n \in Range(names) : plain(n) /\ ~reads_oparg(n)}
        min_instrumented == 254 - (Len(instrumented) - 1)
        first == NumberAll(sorted(no_arg), PredefinedOpcodes, 1)
        second == NumberAll(sorted(has_arg), first.instmap, first.next_opcode)
        third == NumberAll(sorted(specialized), second.instmap, min_internal)
        fourth == NumberAll(instrumented, third.instmap, min_instrumented)
        stored == [i \in DOMAIN insts |->
                      [insts[i] EXCEPT !.val.opcode = DictGet(fourth.instmap, insts[i].key)]]
        numbered == NumberPseudos(sorted(DictKeys(ps)), 256, fourth.instmap, ps)
    IN  IF ~(min_internal + Cardinality(specialized) < min_instrumented)
        THEN [error |-> Some(PythonError("AssertionError", <<0, 0>>)),
              instmap |-> <<>>, no_arg |-> 0, min_instrumented |-> min_instrumented,
              instructions |-> insts, pseudos |-> ps]
        ELSE [error |-> None, instmap |-> numbered.instmap,
              no_arg |-> Cardinality(no_arg), min_instrumented |-> min_instrumented,
              instructions |-> stored, pseudos |-> numbered.pseudos]

\* Analysis(instructions, uops, families, pseudos, opmap, have_arg,
\* min_instrumented): the registries are the ones analyze_forest holds
Analysis(opmap, have_arg, min_instrumented_) ==
    [opmap |-> opmap, have_arg |-> have_arg, min_instrumented |-> min_instrumented_]

---------------------------------------------------------------------------
(* Bounds of the model                                                     *)

\* The longest list of Properties handed to from_list
MaxParts == 2

\* The longest input list and the longest output list of a stack effect
MaxStack == 3

\* The most pieces (a call, an `if (`, a `;` ...) a generated block is made of
MaxChunks == 5

\* Longest forest of operation definitions and macros
MaxOpNodes == 3

\* Most instruction/operation/macro nodes, and most family/pseudo nodes,
\* of a forest of the whole pipeline
MaxDefNodes == 2

MaxDeclNodes == 2

\* The longest forest of instructions to number
MaxNumbered == 4

\* The most inputs of an inst handed to desugar_inst
MaxInputs == 3

\* The longest forest of uops and the instructions that hold them
MaxSizedNodes == 3

\* The longest forest analysed twice
MaxRerunNodes == 4

---------------------------------------------------------------------------
(* Specification of Properties.from_list: Instruction._compute_properties  *)
(* and PseudoInstruction.properties call it on the parts' Properties       *)

\* Escaping-call maps of two different uops: their statements are different
\* tokens, so their keys differ
EscapingOne ==
    <<[key |-> Token("IDENTIFIER", "foo", <<1, 2>>),
       val |-> <<Token("IDENTIFIER", "foo", <<1, 2>>), Token("RBRACE", "}", <<1, 6>>)>>]>>

EscapingTwo ==
    <<[key |-> Token("IDENTIFIER", "res", <<2, 2>>),
       val |-> <<Token("IDENTIFIER", "bar", <<2, 4>>), Token("RBRACE", "}", <<2, 8>>)>>]>>

PropertiesUniverse ==
    {Properties(<<>>, {"pure", f}, None, -1) : f \in AnyFlags}
    \cup {SKIP_PROPERTIES,
          Properties(<<>>, {}, None, -1),
          Properties(<<>>, {"pure", "oparg", "oparg_and_1"}, None, -1),
          Properties(EscapingOne, {"pure"}, Some(1), -1),
          Properties(EscapingTwo, {"error_with_pop"}, None, 0)}

PropsIdle == properties = <<>> /\ combined = None

StackIdle == stack_op = None /\ stack_result = None

EscapeIdle == instr = <<>> /\ escaping = None

ForestIdle ==
    /\ forest = <<>> /\ pc = "idle" /\ at_node = 0
    /\ instructions = <<>> /\ uops = <<>> /\ uop_objs = <<>>
    /\ families = <<>> /\ pseudos = <<>>
    /\ analysis = None /\ raised = None /\ first_run = None

InitProps ==
    /\ properties \in SeqsUpTo(PropertiesUniverse, MaxParts)
    /\ combined = None
    /\ StackIdle
    /\ EscapeIdle
    /\ ForestIdle

\* Properties.from_list(properties)
FromList ==
    /\ combined = None
    /\ combined' = Some(from_list(properties))
    /\ UNCHANGED <<properties, stackVars, escapeVars, forestVars>>

NextProps == FromList

SpecProps == InitProps /\ [][NextProps]_vars

---------------------------------------------------------------------------
(* Specification of analyze_stack                                          *)

InputEffects ==
    {[name |-> n, cache |-> FALSE] : n \in {"x", "y", "unused"}}
    \cup {[name |-> "c", cache |-> TRUE]}

OutputEffects == {[name |-> n] : n \in {"x", "y", "unused", "c"}}

\* The block of the op under analysis: { x ; }
StackBlock ==
    <<Token("LBRACE", "{", 1), Token("IDENTIFIER", "x", 2),
      Token("SEMI", ";", 3), Token("RBRACE", "}", 4)>>

InitStack ==
    /\ \E inputs \in SeqsUpTo(InputEffects, MaxStack),
          outputs \in SeqsUpTo(OutputEffects, MaxStack) :
            stack_op = Some([kind |-> "op", inputs |-> inputs,
                             outputs |-> outputs, block |-> StackBlock])
    /\ stack_result = None
    /\ ForestIdle
    /\ PropsIdle
    /\ EscapeIdle

\* analyze_stack(op)
AnalyzeStack ==
    /\ stack_op # None
    /\ stack_result = None
    /\ stack_result' = Some(analyze_stack(TheValue(stack_op)))
    /\ UNCHANGED <<stack_op, propsVars, escapeVars, forestVars>>

NextStack == AnalyzeStack

SpecStack == InitStack /\ [][NextStack]_vars

---------------------------------------------------------------------------
(* Specification of find_escaping_api_calls                                *)

\* The pieces blocks are generated from
Chunks ==
    {<<T("IF", "if"), T("LPAREN", "(")>>,
     <<T("IDENTIFIER", "DEOPT_IF"), T("LPAREN", "(")>>,
     <<T("IDENTIFIER", "foo"), T("LPAREN", "("), T("RPAREN", ")")>>,
     <<T("RPAREN", ")")>>,
     <<T("SEMI", ";")>>,
     <<T("LBRACE", "{")>>,
     <<T("RBRACE", "}")>>}

RECURSIVE Flatten(_)
Flatten(chunks) ==
    IF chunks = <<>> THEN <<>> ELSE Head(chunks) \o Flatten(Tail(chunks))

RECURSIVE Nesting(_, _, _, _)
\* Whether `open` and `close` nest properly in the tokens, from depth d
Nesting(tokens, open, close, d) ==
    IF tokens = <<>> THEN d = 0
    ELSE IF Head(tokens).kind = open THEN Nesting(Tail(tokens), open, close, d + 1)
    ELSE IF Head(tokens).kind = close
    THEN d > 0 /\ Nesting(Tail(tokens), open, close, d - 1)
    ELSE Nesting(Tail(tokens), open, close, d)

\* A block as the parser hands it over: its braces included, each token at
\* its own position
Block(inner) == TokensAt(1, <<T("LBRACE", "{")>> \o inner \o <<T("RBRACE", "}")>>)

\* The generated blocks: braces and parentheses nest as in C
ChunkBlocks ==
    {Block(Flatten(cs)) : cs \in
        {c \in SeqsUpTo(Chunks, MaxChunks) :
            /\ Nesting(Flatten(c), "LBRACE", "RBRACE", 0)
            /\ Nesting(Flatten(c), "LPAREN", "RPAREN", 0)}}

\* { foo(foo()); }
NestedCalls ==
    Block(<<T("IDENTIFIER", "foo"), T("LPAREN", "("), T("IDENTIFIER", "foo"),
            T("LPAREN", "("), T("RPAREN", ")"), T("RPAREN", ")"), T("SEMI", ";")>>)

\* Blocks that take the branches the generated ones do not: a call through
\* a parenthesized expression, a cast, a call through a subscript, a comment
\* before the statement, a preprocessor line, a non-escaping predicate, a
\* switch, a call among the arguments of another call
ExtraBlocks ==
    {Block(<<T("IF", "if"), T("LPAREN", "("), T("LPAREN", "("), T("TIMES", "*"),
             T("IDENTIFIER", "x"), T("RPAREN", ")"), T("LPAREN", "("), T("RPAREN", ")"),
             T("RPAREN", ")"), T("LBRACE", "{"), T("IDENTIFIER", "x"), T("SEMI", ";"),
             T("RBRACE", "}")>>),
     Block(<<T("IDENTIFIER", "x"), T("EQUALS", "="), T("LPAREN", "("), T("INT", "int"),
             T("RPAREN", ")"), T("LPAREN", "("), T("IDENTIFIER", "x"), T("RPAREN", ")"),
             T("SEMI", ";")>>),
     Block(<<T("IF", "if"), T("LPAREN", "("), T("IDENTIFIER", "x"), T("LBRACKET", "["),
             T("IDENTIFIER", "x"), T("RBRACKET", "]"), T("LPAREN", "("), T("RPAREN", ")"),
             T("RPAREN", ")"), T("LBRACE", "{"), T("IDENTIFIER", "x"), T("SEMI", ";"),
             T("RBRACE", "}")>>),
     Block(<<T("CMACRO", "#ifdef Py_DEBUG"), T("COMMENT", "/* c */"),
             T("IDENTIFIER", "foo"), T("LPAREN", "("), T("RPAREN", ")"), T("SEMI", ";")>>),
     Block(<<T("IF", "if"), T("LPAREN", "("), T("IDENTIFIER", "PyLong_Check"),
             T("LPAREN", "("), T("IDENTIFIER", "x"), T("RPAREN", ")"), T("RPAREN", ")"),
             T("LBRACE", "{"), T("IDENTIFIER", "foo"), T("LPAREN", "("), T("RPAREN", ")"),
             T("SEMI", ";"), T("RBRACE", "}")>>),
     Block(<<T("SWITCH", "switch"), T("LPAREN", "("), T("IDENTIFIER", "x"),
             T("RPAREN", ")"), T("LBRACE", "{"), T("RBRACE", "}")>>),
     NestedCalls}

InitEscape ==
    /\ instr \in ChunkBlocks \cup ExtraBlocks
    /\ escaping = None
    /\ PropsIdle
    /\ StackIdle
    /\ ForestIdle

\* find_escaping_api_calls(instr)
FindEscapingApiCalls ==
    /\ instr # <<>>
    /\ escaping = None
    /\ escaping' = Some(find_escaping_api_calls(instr))
    /\ UNCHANGED <<instr, propsVars, stackVars, forestVars>>

NextEscape == FindEscapingApiCalls

SpecEscape == InitEscape /\ [][NextEscape]_vars

---------------------------------------------------------------------------
(* Specification of analyze_forest                                         *)

\* The statement after the loop named `loop` of analyze_forest
AfterLoop(loop) ==
    CASE loop = "pass1" -> "pass2"
      [] loop = "pass2" -> "pass3"
      [] loop = "pass3" -> "targets"

\* analyze_forest raises e
Raise(e) ==
    /\ raised' = Some(e)
    /\ UNCHANGED <<forest, pc, at_node, instructions, uops, uop_objs, families,
                   pseudos, analysis>>

\* The loop goes on to its next node, or ends
NextNode ==
    IF at_node < Len(forest)
    THEN at_node' = at_node + 1 /\ pc' = pc
    ELSE at_node' = 1 /\ pc' = AfterLoop(pc)

\* The registries after desugar_inst, or its error
Desugared(r) ==
    IF r.error # None THEN Raise(TheValue(r.error))
    ELSE /\ instructions' = r.instructions
         /\ uops' = r.uops
         /\ uop_objs' = r.objs
         /\ NextNode
         /\ UNCHANGED <<forest, families, pseudos, analysis, raised>>

\* The registries after add_op, or its error
Added(r) ==
    IF r.error # None THEN Raise(TheValue(r.error))
    ELSE /\ uops' = r.uops
         /\ uop_objs' = r.objs
         /\ NextNode
         /\ UNCHANGED <<forest, instructions, families, pseudos, analysis, raised>>

\* One iteration of the first `for node in forest`
Pass1Step ==
    /\ pc = "pass1" /\ raised = None
    /\ CASE forest[at_node].kind = "inst" ->
                Desugared(desugar_inst(forest[at_node], at_node, instructions, uops,
                                       uop_objs))
         [] forest[at_node].kind = "op" ->
                Added(add_op(forest[at_node], at_node, uops, uop_objs))
         [] forest[at_node].kind \in {"macro", "family", "pseudo"} ->
                /\ NextNode
                /\ UNCHANGED <<forest, instructions, uops, uop_objs, families,
                               pseudos, analysis, raised>>
         [] OTHER -> Raise(PythonError("AssertionError", <<at_node, 1>>))
    /\ UNCHANGED <<propsVars, stackVars, escapeVars, first_run>>

\* One iteration of the second `for node in forest`
Pass2Step ==
    /\ pc = "pass2" /\ raised = None
    /\ LET node == forest[at_node]
           added == add_macro(node, at_node, instructions, uops)
       IN  IF node.kind = "macro"
           THEN IF added.error # None THEN Raise(TheValue(added.error))
                ELSE /\ instructions' = added.instructions
                     /\ NextNode
                     /\ UNCHANGED <<forest, uops, uop_objs, families, pseudos,
                                    analysis, raised>>
           ELSE /\ NextNode
                /\ UNCHANGED <<forest, instructions, uops, uop_objs, families,
                               pseudos, analysis, raised>>
    /\ UNCHANGED <<propsVars, stackVars, escapeVars, first_run>>

\* One iteration of the third `for node in forest`
Pass3Step ==
    /\ pc = "pass3" /\ raised = None
    /\ LET node == forest[at_node]
           family == add_family(node, at_node, instructions, families)
           pseudo == add_pseudo(node, at_node, instructions, pseudos)
       IN  CASE node.kind = "family" ->
                    IF family.error # None THEN Raise(TheValue(family.error))
                    ELSE /\ instructions' = family.instructions
                         /\ families' = family.families
                         /\ NextNode
                         /\ UNCHANGED <<forest, uops, uop_objs, pseudos, analysis, raised>>
             [] node.kind = "pseudo" ->
                    IF pseudo.error # None THEN Raise(TheValue(pseudo.error))
                    ELSE /\ pseudos' = pseudo.pseudos
                         /\ NextNode
                         /\ UNCHANGED <<forest, instructions, uops, uop_objs, families,
                                        analysis, raised>>
             [] OTHER ->
                    /\ NextNode
                    /\ UNCHANGED <<forest, instructions, uops, uop_objs, families,
                                   pseudos, analysis, raised>>
    /\ UNCHANGED <<propsVars, stackVars, escapeVars, first_run>>

\* The scan of every uop body for GO_TO_INSTRUCTION(name)
ScanTargets ==
    /\ pc = "targets" /\ raised = None
    /\ LET scanned == ScanUops(DictValueSeq(uops), uop_objs, instructions)
       IN  IF scanned.error # None THEN Raise(TheValue(scanned.error))
           ELSE /\ instructions' = scanned.instructions
                /\ pc' = "sizes"
                /\ UNCHANGED <<forest, at_node, uops, uop_objs, families, pseudos,
                               analysis, raised>>
    /\ UNCHANGED <<propsVars, stackVars, escapeVars, first_run>>

\* The loop that sets uop.instruction_size
ResolveSizes ==
    /\ pc = "sizes" /\ raised = None
    /\ LET sized == SizeUops(DictValueSeq(uops), instructions, uop_objs)
       IN  IF sized.error # None THEN Raise(TheValue(sized.error))
           ELSE /\ uop_objs' = sized.objs
                /\ pc' = "special"
                /\ UNCHANGED <<forest, at_node, instructions, uops, families, pseudos,
                               analysis, raised>>
    /\ UNCHANGED <<propsVars, stackVars, escapeVars, first_run>>

\* The special case of BINARY_OP_INPLACE_ADD_UNICODE
SpecialCase ==
    /\ pc = "special" /\ raised = None
    /\ IF DictHas(instructions, "BINARY_OP_INPLACE_ADD_UNICODE")
       THEN IF ~DictHas(families, "BINARY_OP")             \* families["BINARY_OP"]
            THEN Raise(PythonError("KeyError", <<0, 0>>))
            ELSE LET family == DictGet(families, "BINARY_OP")
                 IN  /\ instructions' =
                            SetFamily(instructions, <<"BINARY_OP_INPLACE_ADD_UNICODE">>,
                                      family.id)
                     /\ families' =
                            DictSet(families, "BINARY_OP",
                                [family EXCEPT !.members =
                                    Append(@, "BINARY_OP_INPLACE_ADD_UNICODE")])
                     /\ pc' = "assign"
                     /\ UNCHANGED <<forest, at_node, uops, uop_objs, pseudos,
                                    analysis, raised>>
       ELSE /\ pc' = "assign"
            /\ UNCHANGED <<forest, at_node, instructions, uops, uop_objs, families,
                           pseudos, analysis, raised>>
    /\ UNCHANGED <<propsVars, stackVars, escapeVars, first_run>>

\* The call of assign_opcodes and the return of the Analysis
AssignOpcodes ==
    /\ pc = "assign" /\ raised = None
    /\ LET assigned == assign_opcodes(instructions, families, pseudos, uop_objs)
       IN  IF assigned.error # None THEN Raise(TheValue(assigned.error))
           ELSE /\ instructions' = assigned.instructions
                /\ pseudos' = assigned.pseudos
                /\ analysis' = Some(Analysis(assigned.instmap, assigned.no_arg,
                                             assigned.min_instrumented))
                /\ pc' = "returned"
                /\ UNCHANGED <<forest, at_node, uops, uop_objs, families, raised>>
    /\ UNCHANGED <<propsVars, stackVars, escapeVars, first_run>>

NextForest ==
    \/ Pass1Step
    \/ Pass2Step
    \/ Pass3Step
    \/ ScanTargets
    \/ ResolveSizes
    \/ SpecialCase
    \/ AssignOpcodes

\* analyze_forest(f) is called: the four registries are empty
Called(f) ==
    /\ forest = f
    /\ pc = IF f = <<>> THEN "targets" ELSE "pass1"
    /\ at_node = 1
    /\ instructions = <<>> /\ uops = <<>> /\ uop_objs = <<>>
    /\ families = <<>> /\ pseudos = <<>>
    /\ analysis = None /\ raised = None /\ first_run = None
    /\ PropsIdle /\ StackIdle /\ EscapeIdle

\* --- The nodes forests are made of ---

Braces(tokens) == <<T("LBRACE", "{")>> \o tokens \o <<T("RBRACE", "}")>>

Header(name) == <<T("IDENTIFIER", name)>>

OpargBody == Braces(<<T("IDENTIFIER", "oparg"), T("SEMI", ";")>>)

\* op(U, (x -- x)) { }
OpU == [Node("op", "U") EXCEPT !.header = Header("U"),
            !.inputs = <<StackInput("x")>>, !.outputs = <<StackOutput("x")>>]

\* op(U, (x -- )) { oparg; }
OpU_oparg == [Node("op", "U") EXCEPT !.header = Header("U"),
                  !.inputs = <<StackInput("x")>>, !.block = OpargBody]

\* override op(U, (c/1, x -- )) { oparg; }
OpU_override ==
    [Node("op", "U") EXCEPT !.header = Header("U"), !.annotations = <<"override">>,
         !.inputs = <<CacheInput("c", 1), StackInput("x")>>, !.block = OpargBody]

\* override op(U, (unused/1 -- )) { }: its unused cache entry is an error
OpU_override_unused ==
    [Node("op", "U") EXCEPT !.header = Header("U"), !.annotations = <<"override">>,
         !.inputs = <<CacheInput("unused", 1)>>]

\* replicate(2) op(V, ( -- x)) { x = PyStackRef_FromPyObjectNew(oparg); }
OpV_replicate ==
    [Node("op", "V") EXCEPT !.header = Header("V"), !.annotations = <<"replicate(2)">>,
         !.outputs = <<StackOutput("x")>>,
         !.block = Braces(<<T("IDENTIFIER", "x"), T("EQUALS", "="),
                            T("IDENTIFIER", "PyStackRef_FromPyObjectNew"),
                            T("LPAREN", "("), T("IDENTIFIER", "oparg"),
                            T("RPAREN", ")"), T("SEMI", ";")>>)]

\* macro(M) = unused/1 + U;
MacroM == [Node("macro", "M") EXCEPT !.header = Header("M"),
               !.uops = <<CacheEffect("unused", 1), OpName("U")>>]

\* inst(A, (unused/1, x -- x)) { oparg; }
InstA == [Node("inst", "A") EXCEPT !.header = Header("A"),
              !.inputs = <<CacheInput("unused", 1), StackInput("x")>>,
              !.outputs = <<StackOutput("x")>>, !.block = OpargBody]

\* inst(B, ( -- )) { GO_TO_INSTRUCTION(A); }
InstB == [Node("inst", "B") EXCEPT !.header = Header("B"),
              !.block = Braces(<<T("IDENTIFIER", "GO_TO_INSTRUCTION"), T("LPAREN", "("),
                                 T("IDENTIFIER", "A"), T("RPAREN", ")"), T("SEMI", ";")>>)]

\* inst(<name>, ( -- )) { INSTRUCTION_SIZE; }
InstSized(name) ==
    [Node("inst", name) EXCEPT !.header = Header(name),
         !.block = Braces(<<T("IDENTIFIER", "INSTRUCTION_SIZE"), T("SEMI", ";")>>)]

\* inst(<name>, ( -- )) { }
InstPlain(name) == [Node("inst", name) EXCEPT !.header = Header(name)]

\* inst(<name>, ( -- )) { oparg; }
InstOparg(name) ==
    [Node("inst", name) EXCEPT !.header = Header(name), !.block = OpargBody]

\* family(<name>, 1) = { <members> };
FamilyNode(name, members) ==
    [Node("family", name) EXCEPT !.header = Header(name), !.size = "1",
         !.members = members]

\* pseudo(<name>, ( -- )) = { <targets> };
PseudoNode(name, targets) ==
    [Node("pseudo", name) EXCEPT !.header = Header(name), !.targets = targets]

\* Forests of operation definitions and macros
OpNodes ==
    {OpU, OpU_oparg, OpU_override, OpU_override_unused, OpV_replicate, MacroM, InstA}

InitOps == \E f \in SeqsUpTo(OpNodes, MaxOpNodes) : Called(f)

SpecOps == InitOps /\ [][NextForest]_vars

\* Forests of the whole pipeline: definitions, then families and pseudos
DefNodes ==
    {OpU, MacroM, InstA, InstB, InstSized("INSTRUMENTED_X"),
     InstPlain("INSTRUMENTED_LINE"), InstPlain("BINARY_OP"),
     InstPlain("BINARY_OP_INPLACE_ADD_UNICODE")}

DeclNodes ==
    {FamilyNode("A", <<"B">>), FamilyNode("B", <<"B">>), FamilyNode("F", <<"A">>),
     FamilyNode("A", <<"A", "B">>), FamilyNode("BINARY_OP", <<"BINARY_OP">>),
     PseudoNode("P", <<"A">>), PseudoNode("RESUME", <<"A">>), PseudoNode("Q", <<"Z">>)}

InitForest ==
    \E defs \in SeqsUpTo(DefNodes, MaxDefNodes), decls \in SeqsUpTo(DeclNodes, MaxDeclNodes) :
        Called(defs \o decls)

SpecForest == InitForest /\ [][NextForest]_vars

\* Forests of instructions to number: two that read oparg, two that do not,
\* a pre-seeded name and an instrumented one
NumberingNodes ==
    {InstA, InstB, InstPlain("C"), InstOparg("F"), InstPlain("RESUME"),
     InstSized("INSTRUMENTED_X")}

InitNumbering == \E f \in SeqsUpTo(NumberingNodes, MaxNumbered) : Called(f)

SpecNumbering == InitNumbering /\ [][NextForest]_vars

\* op(S, ( -- )) { INSTRUCTION_SIZE; }
OpSized ==
    [Node("op", "S") EXCEPT !.header = Header("S"),
         !.block = Braces(<<T("IDENTIFIER", "INSTRUCTION_SIZE"), T("SEMI", ";")>>)]

\* macro(<name>) = <parts>;
MacroOf(name, parts) ==
    [Node("macro", name) EXCEPT !.header = Header(name), !.uops = parts]

\* Forests of uops that use INSTRUCTION_SIZE or not, inside instructions of
\* one size, of two sizes, or of none
SizedNodes ==
    {OpSized, OpU, InstSized("A"), MacroM,
     MacroOf("M", <<OpName("S")>>),
     MacroOf("Q", <<CacheEffect("unused", 1), OpName("S")>>)}

InitSizes == \E f \in SeqsUpTo(SizedNodes, MaxSizedNodes) : Called(f)

SpecSizes == InitSizes /\ [][NextForest]_vars

\* inst(A, (<inputs> -- )) { }
InstWith(inputs) ==
    [Node("inst", "A") EXCEPT !.header = Header("A"), !.inputs = inputs]

\* The inputs an inst is declared with: a stack item, unused cache entries
\* of two sizes, a cache entry the body may read
InputChoices ==
    {StackInput("x"), CacheInput("unused", 1), CacheInput("unused", 2),
     CacheInput("c", 1)}

InitDesugar == \E inputs \in SeqsUpTo(InputChoices, MaxInputs) : Called(<<InstWith(inputs)>>)

SpecDesugar == InitDesugar /\ [][NextForest]_vars

\* --- analyze_forest called a second time ---

\* What a call of analyze_forest leaves behind: the exception, or the
\* returned Analysis with its four registries
Outcome(how) ==
    [how |-> how, forest |-> forest, raised |-> raised, analysis |-> analysis,
     instructions |-> instructions, uops |-> uops, uop_objs |-> uop_objs,
     families |-> families, pseudos |-> pseudos]

\* The call has ended, by return or by exception
Ended == pc = "returned" \/ raised # None

\* analyze_forest(f) is called after an earlier call: the four registries are
\* new empty dicts
CalledAgain(f) ==
    /\ forest' = f
    /\ pc' = IF f = <<>> THEN "targets" ELSE "pass1"
    /\ at_node' = 1
    /\ instructions' = <<>> /\ uops' = <<>> /\ uop_objs' = <<>>
    /\ families' = <<>> /\ pseudos' = <<>>
    /\ analysis' = None /\ raised' = None

\* The same node sequence is analysed once more
RunAgain ==
    /\ Ended /\ first_run = None
    /\ first_run' = Some(Outcome("same"))
    /\ CalledAgain(forest)
    /\ UNCHANGED <<propsVars, stackVars, escapeVars>>

IsDefinition(node) == node.kind \in {"inst", "op"}

IsMacro(node) == node.kind = "macro"

IsDeclaration(node) == node.kind \in {"family", "pseudo"}

\* The forest with its op/inst nodes first, then its macros, then its
\* families and pseudos, each group in the order it had
Regroup(f) ==
    SelectSeq(f, IsDefinition) \o SelectSeq(f, IsMacro) \o SelectSeq(f, IsDeclaration)

\* The regrouped node sequence is analysed
RunRegrouped ==
    /\ Ended /\ first_run = None
    /\ first_run' = Some(Outcome("regrouped"))
    /\ CalledAgain(Regroup(forest))
    /\ UNCHANGED <<propsVars, stackVars, escapeVars>>

\* Forests whose macros, families and pseudos stand anywhere among the
\* definitions
RerunNodes ==
    {OpU, MacroM, InstPlain("B"), FamilyNode("M", <<"B">>), PseudoNode("P", <<"M">>)}

InitRerun == \E f \in SeqsUpTo(RerunNodes, MaxRerunNodes) : Called(f)

NextRerun ==
    \/ NextForest
    \/ RunAgain
    \/ RunRegrouped

SpecRerun == InitRerun /\ [][NextRerun]_vars

---------------------------------------------------------------------------
(* Claims about Properties.from_list                                       *)

\* The list every p.<flag> is taken over
OrOver(flag) == \E i \in DOMAIN properties : properties[i][flag]

AndOver(flag) == \A i \in DOMAIN properties : properties[i][flag]

UnionOfMaps ==
    UNION {DictItems(properties[i].escaping_calls) : i \in DOMAIN properties}

\* C4 as stated: every boolean flag of the combination, oparg_and_1
\* included, is the OR of that flag over the list, except pure which is the
\* AND; the combination is infallible iff no element has a failure mode; its
\* escaping-call map is the union of the elements' maps.
C4_AllFlagsCombine ==
    combined # None =>
        LET c == TheValue(combined)
        IN  /\ \A f \in BoolFlags \ {"pure"} : c[f] = OrOver(f)
            /\ c.pure = AndOver("pure")
            /\ infallible(c) = ~(OrOver("error_with_pop") \/ OrOver("error_without_pop"))
            /\ DictItems(c.escaping_calls) = UnionOfMaps

\* C4 amended: the same for every flag but oparg_and_1, which from_list never
\* passes on: the combination has oparg_and_1 false (and tier None and
\* const_oparg -1) whatever the elements hold.
C4_FlagsCombineButSplit ==
    combined # None =>
        LET c == TheValue(combined)
        IN  /\ \A f \in AnyFlags : c[f] = OrOver(f)
            /\ c.pure = AndOver("pure")
            /\ c.oparg_and_1 = FALSE
            /\ c.tier = None
            /\ c.const_oparg = -1
            /\ infallible(c) = ~(OrOver("error_with_pop") \/ OrOver("error_without_pop"))
            /\ DictItems(c.escaping_calls) = UnionOfMaps

\* A combination of two elements, one of them a split specialization, one
\* pure and one not, one fallible
C4_Witness ==
    /\ combined # None
    /\ Len(properties) = 2
    /\ OrOver("oparg_and_1")
    /\ OrOver("pure") /\ ~AndOver("pure")
    /\ OrOver("error_with_pop")
    /\ UnionOfMaps # {}

---------------------------------------------------------------------------
(* Claims about analyze_stack                                              *)

TheOp == TheValue(stack_op)

TheStack == TheValue(stack_result)

\* The declared stack inputs of the op, the cache effects dropped
DeclaredStackInputs == SelectSeq(TheOp.inputs, IsStackEffect)

Returned == stack_result # None /\ TheStack.error = None

Raised == stack_result # None /\ TheStack.error # None

\* Every position up to i holds an input and an output of the same name
SameNamesUpTo(i) ==
    \A j \in 1..i :
        /\ j <= Len(DeclaredStackInputs)
        /\ j <= Len(TheOp.outputs)
        /\ DeclaredStackInputs[j].name = TheOp.outputs[j].name

\* C5: when analyze_stack returns, the input and the output at position i
\* are marked peek iff every position j <= i holds an input and an output of
\* the same name; every other item is not peek.
C5_PeekIffSamePrefix ==
    Returned =>
        /\ Len(TheStack.inputs) = Len(DeclaredStackInputs)
        /\ Len(TheStack.outputs) = Len(TheOp.outputs)
        /\ \A i \in DOMAIN TheStack.inputs :
                TheStack.inputs[i].peek = SameNamesUpTo(i)
        /\ \A i \in DOMAIN TheStack.outputs :
                TheStack.outputs[i].peek = SameNamesUpTo(i)

\* A stack effect with a peeked pair, then a differing pair, then a pair of
\* equal names that is not peeked any more
C5_Witness ==
    /\ Returned
    /\ Len(TheStack.inputs) = 3 /\ Len(TheStack.outputs) = 3
    /\ TheStack.inputs[1].peek /\ TheStack.outputs[1].peek
    /\ TheOp.outputs[2].name # DeclaredStackInputs[2].name
    /\ TheOp.outputs[3].name = DeclaredStackInputs[3].name
    /\ ~TheStack.inputs[3].peek /\ ~TheStack.outputs[3].peek

\* Output p bears the name of a stack input at another position
SharesNameElsewhere(p) ==
    /\ TheOp.outputs[p].name # "unused"
    /\ \E q \in DOMAIN DeclaredStackInputs :
            q # p /\ DeclaredStackInputs[q].name = TheOp.outputs[p].name

\* C6 as stated: whenever analyze_stack returns normally, no output (other
\* than 'unused') shares its name with an input at a different position.
C6_NoSharedNameElsewhere ==
    Returned => \A p \in DOMAIN TheOp.outputs : ~SharesNameElsewhere(p)

\* Output p bears the name of a declared input (a stack or a cache effect)
\* and the stack input at p is missing or named otherwise
ReusedAwayFromItsName(p) ==
    /\ TheOp.outputs[p].name # "unused"
    /\ \E q \in DOMAIN TheOp.inputs : TheOp.inputs[q].name = TheOp.outputs[p].name
    /\ \/ p > Len(DeclaredStackInputs)
       \/ DeclaredStackInputs[p].name # TheOp.outputs[p].name

\* C6 amended: analyze_stack raises the reuse error exactly when some output
\* (other than 'unused') bears the name of a declared input while the input
\* at the output's own position is missing or has another name; an output
\* that has its own name below it may repeat an input of another position.
C6_ReuseRaisesUnlessSameNameBelow ==
    stack_result # None =>
        /\ Raised <=> \E p \in DOMAIN TheOp.outputs : ReusedAwayFromItsName(p)
        /\ Raised => TheValue(TheStack.error).kind = "SyntaxError"

\* The reuse error raised for an output that has no input below it
C6_Witness ==
    /\ Raised
    /\ Len(TheOp.outputs) > Len(DeclaredStackInputs)
    /\ \E p \in DOMAIN TheOp.outputs :
            p > Len(DeclaredStackInputs) /\ SharesNameElsewhere(p)

---------------------------------------------------------------------------
(* Claims about find_escaping_api_calls                                    *)

\* The call sites find_escaping_api_calls classifies as escaping
EscapingCallSites ==
    {i \in 1..(Len(instr) - 1) : IsEscapingCall(instr, i)}

\* Opening minus closing parentheses among the tokens a..b
OpenParens(a, b) ==
    Cardinality({j \in a..b : instr[j].kind = "LPAREN"})
        - Cardinality({j \in a..b : instr[j].kind = "RPAREN"})

\* Token p lies inside the parenthesized condition that follows a head (an
\* `if`, DEOPT_IF or ERROR_IF) at q: the parenthesis opened at q + 1 is
\* still open at every token up to p
InConditionOf(q, p) ==
    /\ IsConditionHead(instr[q])
    /\ q + 1 < p
    /\ instr[q + 1].kind = "LPAREN"
    /\ \A r \in (q + 1)..p : OpenParens(q + 1, r) > 0

InCondition(p) == \E q \in 1..(p - 2) : InConditionOf(q, p)

\* C9: if a call site classified as escaping lies inside the parenthesized
\* condition of an `if`, DEOPT_IF or ERROR_IF, find_escaping_api_calls
\* raises instead of returning a map.
C9_EscapingCallInConditionRaises ==
    escaping # None =>
        ((\E p \in EscapingCallSites : InCondition(p))
            => TheValue(escaping).error # None)

---------------------------------------------------------------------------
(* Claims about analyze_forest and assign_opcodes                          *)

\* analyze_forest has returned its Analysis
Returns == pc = "returned"

\* The opcode the registry holds for the instruction called name
OpcodeOf(name) == DictGet(instructions, name).opcode

\* C1: after assign_opcodes returns, the opcodes assigned to instructions are
\* pairwise distinct and each lies in the byte range 0..255
C1_OpcodesDistinctBytes ==
    Returns =>
        /\ \A m, n \in DictKeys(instructions) : m # n => OpcodeOf(m) # OpcodeOf(n)
        /\ \A n \in DictKeys(instructions) : OpcodeOf(n) \in 0..255

\* The returned opcode map
Opmap == TheValue(analysis).opmap

\* C2: the returned opcode map has CACHE at 0, RESERVED at 17, RESUME at
\* 149, BINARY_OP_INPLACE_ADD_UNICODE at 3, INSTRUMENTED_LINE at 254 and
\* ENTER_EXECUTOR at 255, and no other instruction name has one of these
\* six values
C2_FixedSlotsKept ==
    Returns =>
        /\ \A i \in DOMAIN PredefinedOpcodes :
                /\ DictHas(Opmap, PredefinedOpcodes[i].key)
                /\ DictGet(Opmap, PredefinedOpcodes[i].key) = PredefinedOpcodes[i].val
        /\ \A n \in DictKeys(instructions) \ DictKeys(PredefinedOpcodes) :
                DictGet(Opmap, n) \notin DictValues(PredefinedOpcodes)

\* C3: pseudo-instructions receive 256, 257, ... in lexical name order, and
\* in the returned map every pseudo-instruction opcode differs from every
\* other pseudo-instruction opcode and from every instruction opcode
C3_PseudoOpcodesApart ==
    Returns =>
        LET names == sorted(DictKeys(pseudos))
        IN  /\ \A i \in DOMAIN names :
                    /\ DictGet(pseudos, names[i]).opcode = 255 + i
                    /\ DictGet(Opmap, names[i]) = 255 + i
            /\ \A p, q \in DictKeys(pseudos) :
                    p # q => DictGet(Opmap, p) # DictGet(Opmap, q)
            /\ \A q \in DictKeys(pseudos), n \in DictKeys(instructions) :
                    DictGet(Opmap, q) # OpcodeOf(n)

\* Node j is an op definition and an earlier op definition has its name
Redefines(j) ==
    /\ forest[j].kind = "op"
    /\ \E i \in 1..(j - 1) : forest[i].kind = "op" /\ forest[i].name = forest[j].name

\* The definition before node j that last gave its name a uop
PreviousDefinition(j) ==
    CHOOSE i \in 1..(j - 1) :
        /\ IsInstDef(forest[i]) /\ forest[i].name = forest[j].name
        /\ \A k \in (i + 1)..(j - 1) :
                ~(IsInstDef(forest[k]) /\ forest[k].name = forest[j].name)

\* The first pass has stopped at node j with an exception
FailedAt(j) == pc = "pass1" /\ at_node = j /\ raised # None

\* The first pass has gone past node j
Passed(j) == pc # "pass1" \/ at_node > j

\* The first pass has just gone past node j
JustPassed(j) ==
    /\ raised = None
    /\ \/ pc = "pass1" /\ at_node = j + 1
       \/ pc = "pass2" /\ at_node = 1 /\ j = Len(forest)

\* The registry entry for the name of node j is the Uop built from node j
RegisteredFrom(j) ==
    /\ DictHas(uops, forest[j].name)
    /\ LET uop == uop_objs[DictGet(uops, forest[j].name)]
       IN  /\ uop.context = j
           /\ uop.name = forest[j].name
           /\ uop.annotations = forest[j].annotations
           /\ uop.body = BlockTokens(forest[j], j)

\* C7: when an op definition repeats the name of an earlier op definition,
\* analysis raises the duplicate-definition error naming both contexts iff
\* the later definition lacks `override`; with `override` the analysis goes
\* on and the uop registry entry for the name is the Uop built from the
\* later definition
C7_DuplicateOpNeedsOverride ==
    \A j \in DOMAIN forest :
        Redefines(j) =>
            IF HasAnnotation(forest[j], "override")
            THEN /\ FailedAt(j) => TheValue(raised).msg # "Duplicate definition"
                 /\ JustPassed(j) => RegisteredFrom(j)
            ELSE /\ ~Passed(j)
                 /\ FailedAt(j) =>
                        raised = Some(override_error(forest[j].name, j,
                                          PreviousDefinition(j), <<j, 1>>))

\* C7 happens: an overriding redefinition went through, and the definition
\* after it, which lacks the annotation, is refused and names it
C7_Witness ==
    \E j \in DOMAIN forest :
        /\ Redefines(j) /\ ~HasAnnotation(forest[j], "override") /\ FailedAt(j)
        /\ TheValue(raised).msg = "Duplicate definition"
        /\ Redefines(PreviousDefinition(j))
        /\ HasAnnotation(forest[PreviousDefinition(j)], "override")
        /\ uop_objs[DictGet(uops, forest[j].name)].context = PreviousDefinition(j)

\* C8: in every returned Analysis, every member m of every family F of the
\* family registry has m.family = F, and the instruction registered under
\* F's name has is_target = true
C8_MembersPointToTheirFamily ==
    Returns =>
        \A i \in DOMAIN families :
            LET F == families[i].val
            IN  /\ \A m \in Range(F.members) :
                        DictGet(instructions, m).family = Some(F.id)
                /\ DictGet(instructions, F.name).is_target

\* C10: analyze_forest either returns an Analysis or raises a positioned
\* SyntaxError; apart from the numbering-range assertion nothing else is
\* raised, whatever the forest names
C10_OnlyPositionedErrors ==
    raised # None =>
        \/ TheValue(raised).kind = "SyntaxError"
        \/ TheValue(raised).kind = "AssertionError" /\ pc = "assign"

\* The total size of the instruction registered under name, in code units
SizeOf(name) == size(DictGet(instructions, name), uop_objs)

\* C11: in every returned Analysis, all member instructions of a family have
\* the same total size, the only exception being
\* BINARY_OP_INPLACE_ADD_UNICODE inside the family BINARY_OP
C11_FamilyMembersSameSize ==
    Returns =>
        \A i \in DOMAIN families :
            LET F == families[i].val
            IN  \A m, n \in Range(F.members) :
                    \/ SizeOf(m) = SizeOf(n)
                    \/ /\ F.name = "BINARY_OP"
                       /\ "BINARY_OP_INPLACE_ADD_UNICODE" \in {m, n}

\* The earlier call and the present one, both ended
BothEnded(how) == first_run # None /\ TheValue(first_run).how = how /\ Ended

OpmapOf(outcome) == TheValue(outcome.analysis).opmap

\* C13: moving macro nodes and family/pseudo nodes to other positions among
\* the op/inst nodes, each group keeping its own order, changes neither
\* whether analyze_forest succeeds nor the opcode map it returns: the forest
\* and its regrouping (definitions, then macros, then families and pseudos)
\* end alike
C13_NodeGroupsMayInterleave ==
    BothEnded("regrouped") =>
        LET first == TheValue(first_run)
        IN  /\ (first.raised # None) = (raised # None)
            /\ first.raised = None => OpmapOf(first) = Opmap

\* A macro standing before the op it names and a family standing before the
\* instruction it lists were analysed, then their regrouping, and both runs
\* returned
C13_Witness ==
    /\ BothEnded("regrouped") /\ Returns
    /\ TheValue(first_run).raised = None
    /\ TheValue(first_run).forest =
            <<MacroM, FamilyNode("M", <<"B">>), OpU, InstPlain("B")>>
    /\ DictGet(Opmap, "M") = 1 /\ DictGet(Opmap, "B") = min_internal

---------------------------------------------------------------------------
(* Claims about the numbering of assign_opcodes                            *)

\* The names of the members of the registered families
Specialized == UNION {Range(families[i].val.members) : i \in DOMAIN families}

\* An instruction that is neither specialized nor instrumented
Plain(n) == n \notin Specialized /\ ~StartsWithInstrumented(n)

\* The instruction's combined properties say it reads oparg
ReadsOparg(n) == InstructionProperties(DictGet(instructions, n), uop_objs).oparg

\* The returned have_arg
HaveArg == TheValue(analysis).have_arg

\* C14: in every returned Analysis, have_arg is a boundary: every
\* non-specialized, non-instrumented instruction that does not read oparg
\* has an opcode strictly below have_arg, and every such instruction that
\* reads oparg has an opcode greater than or equal to have_arg
C14_HaveArgIsBoundary ==
    Returns =>
        \A n \in DictKeys(instructions) :
            Plain(n) =>
                IF ReadsOparg(n) THEN OpcodeOf(n) >= HaveArg
                ELSE OpcodeOf(n) < HaveArg

\* The values of the six fixed slots
FixedValues == DictValues(PredefinedOpcodes)

\* The plain instructions that are not pre-seeded, those that do not read
\* oparg in lexical order, then those that read it in lexical order
PlainInOrder ==
    LET numbered == {n \in DictKeys(instructions) \ DictKeys(PredefinedOpcodes) : Plain(n)}
    IN  sorted({n \in numbered : ~ReadsOparg(n)}) \o sorted({n \in numbered : ReadsOparg(n)})

\* The smallest value from v on that no fixed slot holds
FreeFrom(v) ==
    CHOOSE w \in v..(v + Cardinality(FixedValues)) :
        w \notin FixedValues /\ \A u \in v..(w - 1) : u \in FixedValues

\* C15: among the instructions that are neither specialized nor
\* instrumented nor pre-seeded, opcodes follow the order (no-oparg
\* instructions in lexical name order, then oparg-reading instructions in
\* lexical name order): an instruction before another has the smaller
\* opcode, the first one has the smallest free value from 1 on, and the only
\* values skipped between two consecutive ones are values of fixed slots, so
\* that each has the smallest free value after its predecessor's
C15_PlainOpcodesInListOrder ==
    Returns =>
        /\ \A i, j \in DOMAIN PlainInOrder :
                i < j => OpcodeOf(PlainInOrder[i]) < OpcodeOf(PlainInOrder[j])
        /\ PlainInOrder # <<>> => OpcodeOf(PlainInOrder[1]) = FreeFrom(1)
        /\ \A i \in DOMAIN PlainInOrder :
                i > 1 => OpcodeOf(PlainInOrder[i]) = FreeFrom(OpcodeOf(PlainInOrder[i - 1]) + 1)

\* Four instructions were numbered in list order, 3 being skipped: B and C,
\* which do not read oparg, then A and F, which do
C15_Witness ==
    /\ Returns
    /\ PlainInOrder = <<"B", "C", "A", "F">>
    /\ OpcodeOf("B") = 1 /\ OpcodeOf("C") = 2 /\ OpcodeOf("A") = 4 /\ OpcodeOf("F") = 5

\* The instrumented instructions other than INSTRUMENTED_LINE, in the order
\* of their definitions
InstrumentedInOrder ==
    LET instrumented(n) == StartsWithInstrumented(n) /\ n # "INSTRUMENTED_LINE"
    IN  SelectSeq(DictKeySeq(instructions), instrumented)

\* How many instructions have a name starting with INSTRUMENTED
InstrumentedCount ==
    Cardinality({n \in DictKeys(instructions) : StartsWithInstrumented(n)})

\* C16: instrumented instructions other than INSTRUMENTED_LINE receive
\* strictly increasing opcodes in the order of their definitions, each in
\* the range from min_instrumented to 254, where min_instrumented is
\* 254 - (count - 1) for count instrumented instructions
C16_InstrumentedInRange ==
    Returns =>
        /\ TheValue(analysis).min_instrumented = 254 - (InstrumentedCount - 1)
        /\ \A i, j \in DOMAIN InstrumentedInOrder :
                i < j => OpcodeOf(InstrumentedInOrder[i]) < OpcodeOf(InstrumentedInOrder[j])
        /\ \A i \in DOMAIN InstrumentedInOrder :
                OpcodeOf(InstrumentedInOrder[i]) \in
                    TheValue(analysis).min_instrumented .. 254

---------------------------------------------------------------------------
(* Claims about the map find_escaping_api_calls returns                    *)

\* find_escaping_api_calls has returned a map
ReturnsMap == escaping # None /\ TheValue(escaping).error = None

\* The entry the call site at p is to have: the first token of its statement
\* as key, the call's token and the token after the statement's semicolon as
\* value
EntryOf(p) ==
    [key |-> instr[find_stmt_start(instr, p).value],
     val |-> <<instr[p], instr[find_stmt_end(instr, p).value]>>]

\* C17: for every body on which find_escaping_api_calls returns, the map has
\* exactly one entry per surviving call site, keyed by the first token of
\* the enclosing statement and mapping to the pair (the call's token, the
\* token following the statement's terminating semicolon)
C17_OneEntryPerCallSite ==
    ReturnsMap =>
        LET result == TheValue(escaping).value
        IN  /\ Len(result) = Cardinality(EscapingCallSites)
            /\ \A p \in EscapingCallSites : EntryOf(p) \in Range(result)

---------------------------------------------------------------------------
(* Claims about desugar_inst                                               *)

\* desugar_inst has turned the inst node of the forest into an Instruction
DesugaredInst == forest # <<>> /\ forest[1].kind = "inst" /\ DictHas(instructions, forest[1].name)

DeclaredInputs == forest[1].inputs

TheParts == DictGet(instructions, forest[1].name).parts

IsUnusedCache(input) == input.cache /\ input.name = "unused"

IsOtherInput(input) == ~IsUnusedCache(input)

IsOtherCache(input) == input.cache /\ input.name # "unused"

\* The positions of the Uop parts and of the Skip parts among the parts
UopPositions == {i \in DOMAIN TheParts : TheParts[i].kind = "Uop"}

SkipPositions == {i \in DOMAIN TheParts : TheParts[i].kind = "Skip"}

\* The sizes of the Skip parts in the order of the parts, and the sizes of
\* the declared `unused` cache entries in declared order
SkipSizes ==
    LET is_skip(part) == part.kind = "Skip"
        skips == SelectSeq(TheParts, is_skip)
    IN  [i \in DOMAIN skips |-> skips[i].size]

UnusedSizes ==
    LET unused == SelectSeq(DeclaredInputs, IsUnusedCache)
    IN  [i \in DOMAIN unused |-> unused[i].size]

\* The caches of the one Uop are the declared cache entries that are not
\* `unused`, in declared order
CachesAreTheRest ==
    \A u \in UopPositions :
        LET rest == SelectSeq(DeclaredInputs, IsOtherCache)
        IN  uop_objs[TheParts[u].uop].caches =
                [i \in DOMAIN rest |-> CacheEntry(rest[i].name, rest[i].size)]

\* C18 as stated: desugar_inst produces an Instruction with exactly one Uop
\* part and one Skip(n) part for each declared `unused` cache entry of size
\* n, in declared order, every Skip part placed before the Uop part; the
\* Uop's caches are exactly the remaining declared cache entries
C18_SkipsBeforeTheUop ==
    DesugaredInst =>
        /\ Cardinality(UopPositions) = 1
        /\ SkipPositions \cup UopPositions = DOMAIN TheParts
        /\ SkipSizes = UnusedSizes
        /\ \A k \in SkipPositions, u \in UopPositions : k < u
        /\ CachesAreTheRest

\* How many `unused` cache entries are declared before the first input that
\* is not one: all of them when there is no such input
UnusedBeforeFirstOther ==
    LET others == {i \in DOMAIN DeclaredInputs : IsOtherInput(DeclaredInputs[i])}
        first == IF others = {} THEN Len(DeclaredInputs) + 1
                 ELSE CHOOSE i \in others : \A j \in others : i <= j
    IN  Cardinality({i \in 1..(first - 1) : IsUnusedCache(DeclaredInputs[i])})

\* C18, corrected: desugar_inst produces an Instruction with exactly one Uop
\* part and one Skip(n) part for each declared `unused` cache entry of size
\* n, in declared order; the Uop part stands where the first input that is
\* not an `unused` cache entry is declared, after the Skip parts of the
\* entries declared before that input and before those of the entries
\* declared after it (after every Skip part when there is no such input);
\* the Uop's caches are exactly the remaining declared cache entries
C18_UopAtFirstOtherInput ==
    DesugaredInst =>
        /\ Cardinality(UopPositions) = 1
        /\ SkipPositions \cup UopPositions = DOMAIN TheParts
        /\ SkipSizes = UnusedSizes
        /\ UopPositions = {UnusedBeforeFirstOther + 1}
        /\ CachesAreTheRest

\* inst(A, (unused/1, c/1, unused/2 -- )) was desugared: a Skip, the Uop
\* with the cache entry c, a Skip
C18_Witness ==
    /\ DesugaredInst
    /\ DeclaredInputs = <<CacheInput("unused", 1), CacheInput("c", 1), CacheInput("unused", 2)>>
    /\ SkipSizes = <<1, 2>>
    /\ UopPositions = {2}

---------------------------------------------------------------------------
(* Claims about Uop.instruction_size                                       *)

\* The Uop objects of the uop registry
RegisteredUops == {uops[k].val : k \in DOMAIN uops}

UsesInstructionSize(id) ==
    \E i \in DOMAIN uop_objs[id].body : uop_objs[id].body[i].text = "INSTRUCTION_SIZE"

\* The names of the instructions whose parts hold the Uop
HoldersOf(id) ==
    {n \in DictKeys(instructions) : UopIn(id, DictGet(instructions, n))}

\* C19: in every returned Analysis, each registered Uop whose body contains
\* the INSTRUCTION_SIZE token has a non-null instruction_size equal to the
\* total size of every Instruction whose parts contain it, so that an
\* analysis in which such a Uop is in no Instruction, or in two of different
\* sizes, does not return; each Uop without the token has none
C19_InstructionSizeOfHolders ==
    Returns =>
        \A id \in RegisteredUops :
            IF UsesInstructionSize(id)
            THEN /\ uop_objs[id].instruction_size # None
                 /\ HoldersOf(id) # {}
                 /\ \A n \in HoldersOf(id) :
                        SizeOf(n) = TheValue(uop_objs[id].instruction_size)
            ELSE uop_objs[id].instruction_size = None

\* The analysis returned with the op S, which uses INSTRUCTION_SIZE, held by
\* the macro Q of size 2, and the op U, which does not
C19_Witness ==
    /\ Returns
    /\ DictHas(uops, "S") /\ DictHas(uops, "U")
    /\ HoldersOf(DictGet(uops, "S")) = {"Q"}
    /\ uop_objs[DictGet(uops, "S")].instruction_size = Some(2)
    /\ uop_objs[DictGet(uops, "U")].instruction_size = None

---------------------------------------------------------------------------
(* Claims about the uop registry during pass 1                             *)

\* A step of pass 1 leaves every entry the registry already holds, unless
\* the definition it processes carries `override`
EntriesKept ==
    pc = "pass1" =>
        \A k \in DictKeys(uops) :
            DictGet(uops', k) # DictGet(uops, k) =>
                HasAnnotation(forest[at_node], "override")

\* Every key of the registry is the name of the Uop stored under it
KeysAreNames == \A k \in DOMAIN uops : uops[k].key = uop_objs[uops[k].val].name

\* C20: throughout pass 1, an entry of the uop registry is never replaced
\* unless the definition being processed carries `override` (neither an inst
\* whose name equals a registered uop nor a synthesized split or replicate
\* variant overwrites silently), and every registry key equals the name
\* field of the Uop stored under it
C20_UopRegistryKeptAndKeyed == [][EntriesKept]_vars /\ []KeysAreNames

=============================================================================
